---- MODULE Spec2Model ----
(***************************************************************************)
(* Model of the ifb-crawl pipeline: the paginated listing traversal        *)
(* (src/main.py, src/v7.py: IFBScraper.scrape_all_pages), the incremental  *)
(* append to the spreadsheet (src/main.py: GoogleSheetsHandler), the       *)
(* identity-key and filter helpers (src/deduplicate.py) and the platform   *)
(* dispatcher (src/main.py: PlatformDetailScraper.scrape, src/v7.py:       *)
(* IFBScraper._scrape_single_platform).                                    *)
(*                                                                         *)
(* Python strings whose characters matter (start dates, key fields, URLs)  *)
(* are tuples of one-character (or one-token) strings, because a TLA+      *)
(* string cannot be taken apart.                                           *)
(***************************************************************************)
EXTENDS Integers, Sequences, FiniteSets, TLC

VARIABLES
    \* ---- scrape_all_pages (src/main.py:259-304) ----
    t_pc,            \* position in scrape_all_pages
    page_num,        \* local page_num
    all_projects,    \* local all_projects
    page_projects,   \* local page_projects (result of the last extraction)
    nav_log,         \* pages for which _navigate_to_page was called, in order
    extract_log,     \* pages on which _extract_current_page_projects ran
    stop_reason,     \* which exit of the while loop was taken
    nav_ok,          \* what the last _navigate_to_page call returned
    \* ---- GoogleSheetsHandler.append_new_rows (src/main.py:837-872) ----
    m_pc,            \* position in append_new_rows; "repository" / "raised":
                     \* GoogleSheetsRepository(...) returned / raised
    sheet,           \* the spreadsheet SHEET_NAME: exists, header row, data rows
    data,            \* argument data (the enriched projects of the run)
    existing_ids,    \* local existing_ids
    new_rows,        \* local new_rows (the items whose values are appended)
    read_ok,         \* get_existing_ids returned without catching an exception
    run_no,          \* number of pipeline runs started
    sheet_before,    \* the spreadsheet when the current run started
    prev_data,       \* data of the previous run
    prev_read_ok,    \* read_ok of the previous run
    read_calls,      \* calls of get_existing_ids in the current run
    \* ---- filter_new_projects / filter_new_rows (src/deduplicate.py) ----
    f_pc,            \* "ready", "done" (returned), "raised" (KeyError),
                     \* "reapplied" / "repeated" (a second call returned)
    strategy,        \* "url": filter_new_projects, "digest": filter_new_rows
    projects,        \* argument projects / rows: a list of dicts
    existing_keys,   \* argument existing_links / existing_keys
    filtered,        \* the list returned
    \* ---- build_unique_key / attach_unique_keys (src/deduplicate.py) ----
    rows,            \* the list of dicts attach_unique_keys works on
    attach_count,    \* calls of attach_unique_keys made on rows
    first_keys,      \* the unique_key values after the first call
    \* ---- PlatformDetailScraper.scrape (src/main.py:323-343) and
    \*      IFBScraper._scrape_single_platform (src/v7.py:320-332) ----
    d_pc,            \* "ready", "done" (returned) or "raised" (ValueError)
    variant,         \* "main": src/main.py, "v7": src/v7.py
    platform_url,    \* project.platform_url
    selected,        \* the _scrape_* method called, "none" if none was
    \* ---- the site adapters (src/main.py:346-783) and the merge of their
    \*      result into the record (src/main.py:919-921) ----
    a_pc,            \* "ready", "cards" (page loaded), "returned", "merged"
    adapter,         \* the _scrape_* method running
    project,         \* project.to_dict() of the record being enriched
    cards,           \* the cards found on the platform page
    chosen,          \* position of the card the loop stopped at, 0 if none
    built,           \* d of the card extractor when it ended
    failed,          \* "none", "navigation" or "parsing": what raised
    details,         \* the mapping the adapter returned
    combined,        \* combined after combined.update(details)
    \* ---- main (src/main.py:876-956, src/v7.py:626-663) ----
    r_pc,            \* position in main; "exited": returned, "crashed": raised
    program,         \* "main": src/main.py, "v7": src/v7.py, "sheets": the
                     \* constructor of GoogleSheetsRepository (src/sheets.py)
    creds,           \* what main finds as Google credentials
    has_handler,     \* sheets_handler is not None
    has_client,      \* sheets_handler.client is not None
    scraper_made,    \* IFBScraper(...) returned
    n_projects,      \* len(projects)
    n_enriched,      \* records the enrichment loop has been through
    enriched_from,   \* enriched_projects: for each dict, the position in
                     \* projects of the record it was built from
    saved,           \* the JSON and CSV files are written
    store_calls,     \* calls of append_new_rows
    close_calls,     \* calls of scraper.close()
    driver_ops,      \* traversals and enrichments started on the browser
    cause,           \* the step whose exception main caught, or "none"
    \* ---- IFBScraper._extract_current_page_projects and
    \*      _extract_description_from_modal (src/main.py:146-257,
    \*      src/v7.py:139-252) ----
    x_pc,            \* "start", "rows" (in the for loop), "modal" (the
                     \* description step is called) or "returned"
    extractor,       \* "main": src/main.py, "v7": src/v7.py
    has_table,       \* soup.find('table', ...) finds the listing table
    trs,             \* rows = table.find_all('tr')
    row_i,           \* position in trs of the row the loop is at
    extracted,       \* local projects (the records built so far)
    modal_open,      \* the description modal is displayed
    \* ---- the calls made on the browser (src/main.py:131-189, 259-266,
    \*      346-788, 923) ----
    s_fn,            \* the function that is running
    s_pc,            \* position in Code(s_fn); 0: s_fn has ended
    unsettled,       \* a navigation was issued and no settle has followed
    s_raised,        \* s_fn ended by an exception (caught or not)
    s_calls          \* functions started so far

t_vars == <<t_pc, page_num, all_projects, page_projects, nav_log, extract_log,
            stop_reason, nav_ok>>

m_vars == <<m_pc, sheet, data, existing_ids, new_rows, read_ok, run_no,
            sheet_before, prev_data, prev_read_ok,
            read_calls>>

f_vars == <<f_pc, strategy, projects, existing_keys, filtered>>

k_vars == <<rows, attach_count, first_keys>>

d_vars == <<d_pc, variant, platform_url, selected>>

a_vars == <<a_pc, adapter, project, cards, chosen, built, failed, details,
            combined>>

r_vars == <<r_pc, program, creds, has_handler, has_client, scraper_made,
            n_projects, n_enriched, enriched_from, saved, store_calls,
            close_calls, driver_ops, cause>>

x_vars == <<x_pc, extractor, has_table, trs, row_i, extracted, modal_open>>

s_vars == <<s_fn, s_pc, unsettled, s_raised, s_calls>>

vars == <<t_vars, m_vars, f_vars, k_vars, d_vars, a_vars, r_vars, x_vars,
          s_vars>>

(***************************************************************************)
(* Bounds of the model.                                                    *)
(***************************************************************************)
MaxPages == 2   \* listing pages the traversal is followed over
MaxRows == 3    \* records one listing page can yield
MaxRuns == 2    \* pipeline runs against the same spreadsheet
MaxData == 2    \* enriched projects handed to one append_new_rows call
MaxCands == 3   \* candidate dicts handed to one filter call
MaxStrLen == 2  \* characters of a project or company name
MaxUrlLen == 4  \* tokens of an outbound URL
MaxCards == 2   \* cards on a platform page
MaxTrs == 3     \* rows of the listing table after its first row
MaxCalls == 4   \* functions that use the browser, one after the other

(***************************************************************************)
(* Small sequence helpers.                                                 *)
(***************************************************************************)
Range(s) == {s[i] : i \in 1..Len(s)}

SeqsUpTo(S, n) == UNION {[1..k -> S] : k \in 0..n}

(***************************************************************************)
(* Year classification of a start date: re.search(r'(\d{4})', start) and   *)
(* the comparison with "1404".                                             *)
(***************************************************************************)
Digits == {"0", "1", "2", "3", "4", "5", "6", "7", "8", "9"}

\* re.search found nothing (None); the empty tuple is no four-digit group.
NoMatch == <<>>

TARGET_YEAR == <<"1", "4", "0", "4">>

\* re.search(r'(\d{4})', start): group(1) of the leftmost match, or NoMatch.
YearMatch(start) ==
    LET hits == {i \in 1..(Len(start) - 3) :
                    \A j \in i..(i + 3) : start[j] \in Digits}
    IN  IF hits = {} THEN NoMatch
        ELSE LET i == CHOOSE h \in hits : \A g \in hits : h <= g
             IN  SubSeq(start, i, i + 3)

\* The start dates the listing can show: "1404/05", "1403/12", "14/04" (no run
\* of four digits) and "21404" (the leftmost four digits are 2140).
StartDates ==
    { <<"1", "4", "0", "4", "/", "0", "5">>,
      <<"1", "4", "0", "3", "/", "1", "2">>,
      <<"1", "4", "/", "0", "4">>,
      <<"2", "1", "4", "0", "4">> }

IsTarget(proj) == YearMatch(proj.fund_collection_start_date) = TARGET_YEAR

IsNonTarget(proj) ==
    /\ YearMatch(proj.fund_collection_start_date) # NoMatch
    /\ YearMatch(proj.fund_collection_start_date) # TARGET_YEAR

\* A variant that keeps every row that is not of another year.
TargetRows_KeepsUnparseable(page) ==
    SelectSeq(page, LAMBDA proj : ~IsNonTarget(proj))

\* The body of `for proj in page_projects` (append branch): the target rows.
TargetRows(page) == SelectSeq(page, IsTarget)

\* A variant that looks at the last row of the page only.
PageHasNon1404_LastRowOnly(page) ==
    Len(page) > 0 /\ IsNonTarget(page[Len(page)])

\* page_has_non_1404 after the for loop.
PageHasNon1404(page) == \E i \in 1..Len(page) : IsNonTarget(page[i])

(***************************************************************************)
(* The listing site: what _extract_current_page_projects can return on     *)
(* page n. A record carries the row number the site prints and its start   *)
(* date. The site decides what every page holds: an empty list is one of   *)
(* its answers on any page, and nothing makes it run out of rows.          *)
(***************************************************************************)
MkPage(n, dates) ==
    [i \in 1..Len(dates) |->
        [row_number |-> (n - 1) * MaxRows + i,
         fund_collection_start_date |-> dates[i]]]

PagesAt(n) == {MkPage(n, d) : d \in SeqsUpTo(StartDates, MaxRows)}

(***************************************************************************)
(* scrape_all_pages, one action per step of the while loop.                *)
(***************************************************************************)
TStart ==
    /\ t_pc = "start"
    /\ page_num = 1
    /\ all_projects = <<>>
    /\ page_projects = <<>>
    /\ nav_log = <<>>
    /\ extract_log = <<>>
    /\ stop_reason = "none"
    /\ nav_ok = TRUE

\* driver.get(IFB_MAIN_URL); the loop is entered with page_num = 1.
OpenListing ==
    /\ t_pc = "start"
    /\ UNCHANGED <<m_vars, f_vars, k_vars, d_vars, a_vars, r_vars,
                 x_vars, s_vars>>
    /\ t_pc' = "loop"
    /\ UNCHANGED <<page_num, all_projects, page_projects, nav_log, extract_log,
                   stop_reason, nav_ok>>

\* A variant that goes on to the extraction whatever _navigate_to_page
\* returned.
NavigateToPage_IgnoresFailure ==
    /\ t_pc = "loop"
    /\ UNCHANGED <<m_vars, f_vars, k_vars, d_vars, a_vars, r_vars,
                 x_vars, s_vars>>
    /\ page_num > 1
    /\ page_num <= MaxPages
    /\ nav_log' = Append(nav_log, page_num)
    /\ nav_ok' \in BOOLEAN
    /\ t_pc' = "extract"
    /\ UNCHANGED <<page_num, all_projects, page_projects, extract_log,
                   stop_reason>>

\* `if page_num > 1: if not self._navigate_to_page(page_num): break`.
\* _navigate_to_page returns False for every exception of its body (script
\* error, timeout of the wait for the grid) and True otherwise. The pages
\* 2..MaxPages are followed in full; what the loop does after them is in
\* NavigateFurther, ExtractFurther and ClassifyFurther.
NavigateToPage ==
    /\ t_pc = "loop"
    /\ UNCHANGED <<m_vars, f_vars, k_vars, d_vars, a_vars, r_vars,
                 x_vars, s_vars>>
    /\ page_num > 1
    /\ page_num <= MaxPages
    /\ nav_log' = Append(nav_log, page_num)
    /\ \E ok \in BOOLEAN :
          /\ nav_ok' = ok
          /\ IF ok
             THEN /\ t_pc' = "extract"
                  /\ UNCHANGED stop_reason
             ELSE /\ t_pc' = "done"
                  /\ stop_reason' = "nav_failed"
    /\ UNCHANGED <<page_num, all_projects, page_projects, extract_log>>

\* Page 1 needs no navigation.
SkipNavigation ==
    /\ t_pc = "loop"
    /\ UNCHANGED <<m_vars, f_vars, k_vars, d_vars, a_vars, r_vars,
                 x_vars, s_vars>>
    /\ page_num = 1
    /\ t_pc' = "extract"
    /\ UNCHANGED <<page_num, all_projects, page_projects, nav_log, extract_log,
                   stop_reason, nav_ok>>

\* `page_projects = self._extract_current_page_projects()` and the
\* `if not page_projects: break` that follows it.
ExtractPage ==
    /\ t_pc = "extract"
    /\ UNCHANGED <<m_vars, f_vars, k_vars, d_vars, a_vars, r_vars,
                 x_vars, s_vars>>
    /\ page_num <= MaxPages
    /\ extract_log' = Append(extract_log, page_num)
    /\ \E page \in PagesAt(page_num) :
          /\ page_projects' = page
          /\ IF page = <<>>
             THEN /\ t_pc' = "done"
                  /\ stop_reason' = "empty_page"
             ELSE /\ t_pc' = "classify"
                  /\ UNCHANGED stop_reason
    /\ UNCHANGED <<page_num, all_projects, nav_log, nav_ok>>

\* A variant of the loop body that forgets `page_num += 1`.
ClassifyPage_NoAdvance ==
    /\ t_pc = "classify"
    /\ UNCHANGED <<m_vars, f_vars, k_vars, d_vars, a_vars, r_vars,
                 x_vars, s_vars>>
    /\ all_projects' = all_projects \o TargetRows(page_projects)
    /\ IF PageHasNon1404(page_projects)
       THEN /\ t_pc' = "done"
            /\ stop_reason' = "non_1404"
       ELSE /\ t_pc' = "loop"
            /\ UNCHANGED stop_reason
    /\ UNCHANGED <<page_num, page_projects, nav_log, extract_log, nav_ok>>

\* The for loop over page_projects, `if page_has_non_1404: break` and
\* `page_num += 1`.
ClassifyPage ==
    /\ t_pc = "classify"
    /\ UNCHANGED <<m_vars, f_vars, k_vars, d_vars, a_vars, r_vars,
                 x_vars, s_vars>>
    /\ page_num <= MaxPages
    /\ all_projects' = all_projects \o TargetRows(page_projects)
    /\ IF PageHasNon1404(page_projects)
       THEN /\ t_pc' = "done"
            /\ stop_reason' = "non_1404"
            /\ UNCHANGED page_num
       ELSE /\ t_pc' = "loop"
            /\ page_num' = page_num + 1
            /\ UNCHANGED stop_reason
    /\ UNCHANGED <<page_projects, nav_log, extract_log, nav_ok>>

TNext ==
    \/ OpenListing
    \/ NavigateToPage
    \/ SkipNavigation
    \/ ExtractPage
    \/ ClassifyPage

(***************************************************************************)
(* The loop after page MaxPages. The while loop has no page limit and its  *)
(* control flow reads page_num only in `page_num > 1`, so the turns after  *)
(* page MaxPages are the same turn again: page_num stays at MaxPages + 1   *)
(* (standing for every larger number), and the logs and all_projects keep  *)
(* what the first MaxPages pages gave. The site still answers as it likes; *)
(* a page is kept by its first row or as the empty page.                   *)
(***************************************************************************)
FurtherPages ==
    {<<>>} \cup {MkPage(MaxPages + 1, <<d>>) : d \in StartDates}

\* `if not self._navigate_to_page(page_num): break` on a later page.
NavigateFurther ==
    /\ t_pc = "loop"
    /\ UNCHANGED <<m_vars, f_vars, k_vars, d_vars, a_vars, r_vars,
                 x_vars, s_vars>>
    /\ page_num > MaxPages
    /\ \E ok \in BOOLEAN :
          /\ nav_ok' = ok
          /\ IF ok
             THEN /\ t_pc' = "extract"
                  /\ UNCHANGED stop_reason
             ELSE /\ t_pc' = "done"
                  /\ stop_reason' = "nav_failed"
    /\ UNCHANGED <<page_num, all_projects, page_projects, nav_log, extract_log>>

\* The extraction and `if not page_projects: break` on a later page.
ExtractFurther ==
    /\ t_pc = "extract"
    /\ UNCHANGED <<m_vars, f_vars, k_vars, d_vars, a_vars, r_vars,
                 x_vars, s_vars>>
    /\ page_num > MaxPages
    /\ \E page \in FurtherPages :
          /\ page_projects' = page
          /\ IF page = <<>>
             THEN /\ t_pc' = "done"
                  /\ stop_reason' = "empty_page"
             ELSE /\ t_pc' = "classify"
                  /\ UNCHANGED stop_reason
    /\ UNCHANGED <<page_num, all_projects, nav_log, extract_log, nav_ok>>

\* The for loop, `if page_has_non_1404: break` and `page_num += 1` on a
\* later page.
ClassifyFurther ==
    /\ t_pc = "classify"
    /\ UNCHANGED <<m_vars, f_vars, k_vars, d_vars, a_vars, r_vars,
                 x_vars, s_vars>>
    /\ page_num > MaxPages
    /\ IF PageHasNon1404(page_projects)
       THEN /\ t_pc' = "done"
            /\ stop_reason' = "non_1404"
       ELSE /\ t_pc' = "loop"
            /\ UNCHANGED stop_reason
    /\ UNCHANGED <<page_num, all_projects, page_projects, nav_log, extract_log,
                   nav_ok>>

TNextUnbounded ==
    \/ TNext
    \/ NavigateFurther
    \/ ExtractFurther
    \/ ClassifyFurther

(***************************************************************************)
(* Claims about scrape_all_pages.                                          *)
(***************************************************************************)
\* Year of a record as the claims read it.
YearOf(proj) == YearMatch(proj.fund_collection_start_date)

HasParseableOtherYear(page) ==
    \E i \in 1..Len(page) : YearOf(page[i]) # NoMatch /\ YearOf(page[i]) # TARGET_YEAR

AllTargetYear(page) ==
    Len(page) > 0 /\ \A i \in 1..Len(page) : YearOf(page[i]) = TARGET_YEAR

OnlyTargetYear(page) ==
    SelectSeq(page, LAMBDA proj : YearOf(proj) = TARGET_YEAR)

\* C1: when the page just extracted holds a row whose year is parseable and is
\* not 1404, classifying it ends the traversal, adds exactly the page's 1404
\* rows (in order) to the result, and afterwards no page is navigated to or
\* extracted and the result does not change.
C1_HaltAfterNonTargetPage ==
    /\ [][(t_pc = "classify" /\ HasParseableOtherYear(page_projects))
            => /\ t_pc' = "done"
               /\ all_projects' = all_projects \o OnlyTargetYear(page_projects)
               /\ nav_log' = nav_log
               /\ extract_log' = extract_log]_vars
    /\ [][t_pc = "done"
            => UNCHANGED <<all_projects, nav_log, extract_log, page_num>>]_vars

\* Page 1 has three 1404 rows, page 2 two 1404 rows and one 1403 row: the
\* traversal is over after page 2 with five records.
C1_Witness ==
    /\ t_pc = "done"
    /\ stop_reason = "non_1404"
    /\ extract_log = <<1, 2>>
    /\ nav_log = <<2>>
    /\ Len(all_projects) = 5
    /\ Len(page_projects) = 3
    /\ Cardinality({i \in 1..3 : YearOf(page_projects[i]) = TARGET_YEAR}) = 2
    /\ \E i \in 1..3 :
          YearOf(page_projects[i]) = <<"1", "4", "0", "3">>
          /\ page_projects[i] \notin Range(all_projects)

\* C2: a non-empty page whose rows all have year 1404 is retained whole and
\* the traversal goes on to page n+1, navigating to it; pages are extracted in
\* the order 1, 2, 3, ... and navigated to in the order 2, 3, ... (page 1 is
\* never navigated to); a page with zero records ends the traversal with the
\* result unchanged.
C2_ProceedOnAllTargetHaltOnEmpty ==
    /\ [][(t_pc = "classify" /\ AllTargetYear(page_projects))
            => /\ all_projects' = all_projects \o page_projects
               /\ t_pc' = "loop"
               /\ page_num' = page_num + 1]_vars
    /\ [][(t_pc = "loop" /\ page_num > 1)
            => nav_log' = Append(nav_log, page_num)]_vars
    /\ [][(t_pc = "extract" /\ page_projects' = <<>>)
            => /\ t_pc' = "done"
               /\ all_projects' = all_projects]_vars
    /\ [](/\ extract_log = [i \in 1..Len(extract_log) |-> i]
          /\ nav_log = [i \in 1..Len(nav_log) |-> i + 1]
          /\ (t_pc = "done" /\ stop_reason = "empty_page"
                => page_projects = <<>>))

\* Page 1 was all 1404 and retained whole, page 2 was navigated to and
\* yielded nothing.
C2_Witness ==
    /\ t_pc = "done"
    /\ stop_reason = "empty_page"
    /\ extract_log = <<1, 2>>
    /\ nav_log = <<2>>
    /\ Len(all_projects) = MaxRows
    /\ page_projects = <<>>

\* C16: when _navigate_to_page fails for page n > 1, the traversal is over at
\* once (nothing raised: the step ends in the return of the function), the
\* result is what it was before the attempt, and from then on no page is
\* navigated to or extracted and the result does not change; the result holds
\* rows of pages 1..n-1 only, all of which were extracted, in order.
C16_NavFailureEndsTraversal ==
    /\ [][(t_pc = "loop" /\ page_num > 1 /\ t_pc' # "loop" /\ ~nav_ok')
            => /\ t_pc' = "done"
               /\ stop_reason' = "nav_failed"
               /\ nav_log' = Append(nav_log, page_num)
               /\ UNCHANGED <<all_projects, extract_log, page_num>>]_vars
    /\ [][stop_reason = "nav_failed"
            => UNCHANGED <<t_pc, all_projects, nav_log, extract_log>>]_vars
    /\ [](stop_reason = "nav_failed"
            => /\ t_pc = "done"
               /\ ~nav_ok
               /\ page_num > 1
               /\ nav_log = [i \in 1..(page_num - 1) |-> i + 1]
               /\ extract_log = [i \in 1..(page_num - 1) |-> i]
               /\ \A i \in 1..Len(all_projects) :
                     all_projects[i].row_number <= (page_num - 1) * MaxRows)

\* Page 1 gave its three 1404 rows, the navigation to page 2 failed: the
\* traversal is over with the three rows of page 1.
C16_Witness ==
    /\ t_pc = "done"
    /\ stop_reason = "nav_failed"
    /\ ~nav_ok
    /\ page_num = 2
    /\ nav_log = <<2>>
    /\ extract_log = <<1>>
    /\ Len(all_projects) = MaxRows
    /\ all_projects = page_projects

\* A start date without a run of four digits.
Unparseable(proj) == YearOf(proj) = NoMatch

\* C17: no row with an unparseable start date is ever in the result; a page
\* without a parseable row of another year (only 1404 rows and unparseable
\* rows) makes the traversal proceed to the next page with exactly its 1404
\* rows added; and the traversal halts on a page only when the page is empty
\* or holds a parseable row of another year.
C17_UnparseableRowsAreDropped ==
    /\ [](\A i \in 1..Len(all_projects) : ~Unparseable(all_projects[i]))
    /\ [][(t_pc = "classify" /\ ~HasParseableOtherYear(page_projects))
            => /\ t_pc' = "loop"
               /\ page_num' = page_num + 1
               /\ all_projects' = all_projects \o OnlyTargetYear(page_projects)]_vars
    /\ [][(t_pc = "classify" /\ t_pc' = "done")
            => HasParseableOtherYear(page_projects)]_vars

\* Page 1 held 1404 rows and an unparseable row: the traversal has moved on
\* to page 2 with the 1404 rows only.
C17_Witness ==
    /\ t_pc = "loop"
    /\ page_num = 2
    /\ \E i \in 1..Len(page_projects) : Unparseable(page_projects[i])
    /\ \E i \in 1..Len(page_projects) : YearOf(page_projects[i]) = TARGET_YEAR
    /\ all_projects = OnlyTargetYear(page_projects)
    /\ Len(all_projects) < Len(page_projects)

\* C18: every traversal ends: scrape_all_pages eventually returns, whatever
\* the site answers.
C18_TraversalTerminates == <>(t_pc = "done")

(***************************************************************************)
(* GoogleSheetsHandler: the spreadsheet and append_new_rows.               *)
(*                                                                         *)
(* A row of the worksheet is modelled by its cell in the ifb_project_id    *)
(* column, which is the only cell get_existing_ids reads. sheet.header     *)
(* tells whether row 1 is the header row written by append_new_rows when   *)
(* it creates the spreadsheet (the only place a header is written).        *)
(***************************************************************************)
\* Python None.
PyNone == "<None>"

\* Identifiers showDesc('(\d+)') / GoToDocuments('(\d+)') can yield.
Ids == {"1", "2"}

\* str(x) of an identifier or None.
Str(x) == IF x = PyNone THEN "None" ELSE x

\* Truth value of a Python str.
Truthy(s) == s # ""

\* The cell the worksheet holds for a value of list(item.values()): None is
\* sent as null and leaves the cell empty.
CellOf(x) == IF x = PyNone THEN "" ELSE x

\* The dicts of enriched_projects: project_name stands for the fields other
\* than the identifier.
Items == [project_name : 1..MaxData, ifb_project_id : Ids \cup {PyNone}]

\* enriched_projects of one run: main returns before the append when the
\* traversal found nothing, so the list is never empty.
DataLists ==
    {d \in SeqsUpTo(Items, MaxData) :
        Len(d) > 0 /\ \A i \in 1..Len(d) : d[i].project_name = i}

NoSheet == [exists |-> FALSE, header |-> FALSE, rows |-> <<>>]

\* A spreadsheet somebody created by hand and shared: no row at all.
BlankSheet == [exists |-> TRUE, header |-> FALSE, rows |-> <<>>]

\* get_existing_ids: the try body. row_values(1) without 'ifb_project_id'
\* makes headers.index raise ValueError, which returns set().
GetExistingIds(sh) ==
    IF ~sh.exists THEN {}
    ELSE IF ~sh.header THEN {}
    ELSE Range(sh.rows)

\* A variant of the filter that keeps every item that has an identifier.
NewRows_NoMembershipTest(items, existing) ==
    SelectSeq(items, LAMBDA item : Truthy(Str(item.ifb_project_id)))

\* The loop building new_rows: `if pid and pid not in existing_ids`.
NewRows(items, existing) ==
    SelectSeq(items, LAMBDA item :
        /\ Truthy(Str(item.ifb_project_id))
        /\ Str(item.ifb_project_id) \notin existing)

\* The id-column cells of new_rows as worksheet.append_rows stores them.
CellsOf(items) == [i \in 1..Len(items) |-> CellOf(items[i].ifb_project_id)]

MStart ==
    /\ m_pc = "idle"
    /\ sheet \in {NoSheet, BlankSheet}
    /\ data = <<>>
    /\ existing_ids = {}
    /\ new_rows = <<>>
    /\ read_ok = TRUE
    /\ run_no = 0
    /\ sheet_before = sheet
    /\ prev_data = <<>>
    /\ prev_read_ok = TRUE
    /\ read_calls = 0

\* main reaches `sheets_handler.append_new_rows(SHEET_NAME, enriched_projects)`.
BeginRun ==
    /\ m_pc \in {"idle", "done"}
    /\ UNCHANGED <<t_vars, f_vars, k_vars, d_vars, a_vars, r_vars,
                 x_vars, s_vars>>
    /\ run_no < MaxRuns
    /\ run_no' = run_no + 1
    /\ \E d \in DataLists : data' = d
    /\ prev_data' = data
    /\ prev_read_ok' = read_ok
    /\ read_calls' = 0
    /\ sheet_before' = sheet
    /\ existing_ids' = {}
    /\ new_rows' = <<>>
    /\ read_ok' = TRUE
    /\ m_pc' = "open"
    /\ UNCHANGED sheet

\* try: client.open(sheet_name) / except SpreadsheetNotFound: create it and,
\* if data, append the header row.
OpenOrCreate ==
    /\ m_pc = "open"
    /\ UNCHANGED <<t_vars, f_vars, k_vars, d_vars, a_vars, r_vars,
                 x_vars, s_vars>>
    /\ sheet' = IF sheet.exists THEN sheet
                ELSE [exists |-> TRUE, header |-> Len(data) > 0, rows |-> <<>>]
    /\ m_pc' = "read"
    /\ UNCHANGED <<data, existing_ids, new_rows, read_ok, run_no, sheet_before,
                   prev_data, prev_read_ok, read_calls>>

\* existing_ids = self.get_existing_ids(sheet_name); a request that raises is
\* caught inside get_existing_ids, which then returns set().
ReadExistingIds ==
    /\ m_pc = "read"
    /\ UNCHANGED <<t_vars, f_vars, k_vars, d_vars, a_vars, r_vars,
                 x_vars, s_vars>>
    /\ \E ok \in BOOLEAN :
          /\ read_ok' = ok
          /\ existing_ids' = IF ok THEN GetExistingIds(sheet) ELSE {}
    /\ m_pc' = "filter"
    /\ UNCHANGED <<sheet, data, new_rows, run_no, sheet_before, prev_data,
                   prev_read_ok>>
    /\ read_calls' = read_calls + 1

\* A variant that adds the identifiers it accepts to existing_ids.
FilterAndAppend_AddsAcceptedIds ==
    /\ m_pc = "filter"
    /\ UNCHANGED <<t_vars, f_vars, k_vars, d_vars, a_vars, r_vars,
                   x_vars, s_vars>>
    /\ new_rows' = NewRows(data, existing_ids)
    /\ sheet' = [sheet EXCEPT !.rows = @ \o CellsOf(NewRows(data, existing_ids))]
    /\ existing_ids' = existing_ids \cup
          {Str(NewRows(data, existing_ids)[i].ifb_project_id) :
              i \in 1..Len(NewRows(data, existing_ids))}
    /\ m_pc' = "done"
    /\ UNCHANGED <<data, read_ok, run_no, sheet_before, prev_data,
                   prev_read_ok, read_calls>>

\* The for loop over data and `if new_rows: worksheet.append_rows(new_rows)`.
FilterAndAppend ==
    /\ m_pc = "filter"
    /\ UNCHANGED <<t_vars, f_vars, k_vars, d_vars, a_vars, r_vars,
                 x_vars, s_vars>>
    /\ new_rows' = NewRows(data, existing_ids)
    /\ sheet' = [sheet EXCEPT !.rows = @ \o CellsOf(NewRows(data, existing_ids))]
    /\ m_pc' = "done"
    /\ UNCHANGED <<data, existing_ids, read_ok, run_no, sheet_before, prev_data,
                   prev_read_ok, read_calls>>

\* GoogleSheetsRepository.__init__ of src/sheets.py on the same store:
\* `self.sheet = self.client.open_by_key(spreadsheet_id).sheet1` is not in a
\* try, so a spreadsheet that does not exist raises out of the constructor
\* and fetch_existing_links / fetch_existing_keys are never reached.
OpenRepository ==
    /\ m_pc \in {"idle", "done"}
    /\ UNCHANGED <<t_vars, f_vars, k_vars, d_vars, a_vars, r_vars,
                 x_vars, s_vars>>
    /\ m_pc' = IF sheet.exists THEN "repository" ELSE "raised"
    /\ UNCHANGED <<sheet, data, existing_ids, new_rows, read_ok, run_no,
                   sheet_before, prev_data, prev_read_ok,
                   read_calls>>

MNext ==
    \/ BeginRun
    \/ OpenOrCreate
    \/ ReadExistingIds
    \/ FilterAndAppend
    \/ OpenRepository


(***************************************************************************)
(* src/deduplicate.py: filter_new_projects and filter_new_rows.            *)
(*                                                                         *)
(* A Python dict is a function whose domain is the set of its keys, so a   *)
(* dict without "detail_url" differs from one that has it.                 *)
(***************************************************************************)
\* Identity keys: outbound URLs (url strategy) or digests (digest strategy).
Keys == {"k1", "k2", "k3", "k4"}

\* The field the strategy reads.
KeyField(strat) == IF strat = "url" THEN "detail_url" ELSE "unique_key"

\* d.get(k): the value, or None when the dict has no such key.
DictGet(d, k) == IF k \in DOMAIN d THEN d[k] ELSE PyNone

\* A candidate dict: project_name (its position, standing for the fields the
\* filters do not read) and, optionally, the key field.
Dict1(i) == [k \in {"project_name"} |-> i]

Dict2(i, field, key) ==
    [k \in {"project_name", field} |-> IF k = field THEN key ELSE i]

CandidateLists(strat) ==
    {[i \in 1..Len(ks) |->
        IF ks[i] = PyNone THEN Dict1(i) ELSE Dict2(i, KeyField(strat), ks[i])] :
        ks \in SeqsUpTo(Keys \cup {PyNone}, MaxCands)}

\* A variant with the membership test inverted.
FilterNewProjects_KeepsKnown(ps, existing_links) ==
    SelectSeq(ps, LAMBDA p : DictGet(p, "detail_url") \in existing_links)

\* A variant that starts at the second candidate.
FilterNewProjects_SkipsFirst(ps, existing_links) ==
    SelectSeq(IF ps = <<>> THEN ps ELSE Tail(ps),
              LAMBDA p : DictGet(p, "detail_url") \notin existing_links)

\* filter_new_projects: [p for p in projects
\*                       if p.get("detail_url") not in existing_links]
FilterNewProjects(ps, existing_links) ==
    SelectSeq(ps, LAMBDA p : DictGet(p, "detail_url") \notin existing_links)

\* row["unique_key"] raises KeyError on a dict without the key; the list
\* comprehension then returns nothing.
FilterNewRowsRaises(rs) ==
    \E i \in 1..Len(rs) : "unique_key" \notin DOMAIN rs[i]

\* filter_new_rows: [row for row in rows
\*                   if row["unique_key"] not in existing_keys]
FilterNewRows(rs, existing) ==
    SelectSeq(rs, LAMBDA row : row["unique_key"] \notin existing)

FStart ==
    /\ f_pc = "ready"
    /\ strategy \in {"url", "digest"}
    /\ projects \in CandidateLists(strategy)
    /\ existing_keys \in SUBSET Keys
    /\ filtered = <<>>

FRest ==
    /\ f_pc = "ready"
    /\ strategy = "url"
    /\ projects = <<>>
    /\ existing_keys = {}
    /\ filtered = <<>>

CallFilterNewProjects ==
    /\ f_pc = "ready"
    /\ UNCHANGED <<t_vars, m_vars, k_vars, d_vars, a_vars, r_vars,
                 x_vars, s_vars>>
    /\ strategy = "url"
    /\ filtered' = FilterNewProjects(projects, existing_keys)
    /\ f_pc' = "done"
    /\ UNCHANGED <<strategy, projects, existing_keys>>

CallFilterNewRows ==
    /\ f_pc = "ready"
    /\ UNCHANGED <<t_vars, m_vars, k_vars, d_vars, a_vars, r_vars,
                 x_vars, s_vars>>
    /\ strategy = "digest"
    /\ IF FilterNewRowsRaises(projects)
       THEN /\ f_pc' = "raised"
            /\ UNCHANGED filtered
       ELSE /\ f_pc' = "done"
            /\ filtered' = FilterNewRows(projects, existing_keys)
    /\ UNCHANGED <<strategy, projects, existing_keys>>

\* The filter of the strategy called on rs with existing_keys: whether it
\* raises, and the list it returns when it does not.
FilterRaises(rs) == strategy = "digest" /\ FilterNewRowsRaises(rs)

FilterOutcome(rs) ==
    IF strategy = "url" THEN FilterNewProjects(rs, existing_keys)
    ELSE FilterNewRows(rs, existing_keys)

\* A second call of the same filter, on the list the first call returned and
\* with the same set.
ReapplyFilter ==
    /\ f_pc = "done"
    /\ UNCHANGED <<t_vars, m_vars, k_vars, d_vars, a_vars, r_vars,
                 x_vars, s_vars>>
    /\ IF FilterRaises(filtered)
       THEN /\ f_pc' = "raised"
            /\ UNCHANGED filtered
       ELSE /\ f_pc' = "reapplied"
            /\ filtered' = FilterOutcome(filtered)
    /\ UNCHANGED <<strategy, projects, existing_keys>>

\* A second call of the same filter, on the same candidates and with the
\* same set.
RepeatFilter ==
    /\ f_pc = "done"
    /\ UNCHANGED <<t_vars, m_vars, k_vars, d_vars, a_vars, r_vars,
                 x_vars, s_vars>>
    /\ IF FilterRaises(projects)
       THEN /\ f_pc' = "raised"
            /\ UNCHANGED filtered
       ELSE /\ f_pc' = "repeated"
            /\ filtered' = FilterOutcome(projects)
    /\ UNCHANGED <<strategy, projects, existing_keys>>

FNext ==
    \/ CallFilterNewProjects
    \/ CallFilterNewRows
    \/ ReapplyFilter
    \/ RepeatFilter

(***************************************************************************)
(* src/deduplicate.py: build_unique_key and attach_unique_keys.            *)
(***************************************************************************)
\* Characters of the key fields: a letter and the hyphen.
NameChars == {"a", "-"}

Names == SeqsUpTo(NameChars, MaxStrLen)

\* Start dates and capture timestamps, as strings of one token.
KeyDates == {<<"1404/01/01">>, <<"1404/02/02">>}

ScrapedDates == {<<"t1">>, <<"t2">>}

MkRow(pn, cn, sd, ts) ==
    [k \in {"project_name", "company_name", "fund_collection_start_date",
            "scraped_date"} |->
        CASE k = "project_name" -> pn
          [] k = "company_name" -> cn
          [] k = "fund_collection_start_date" -> sd
          [] OTHER -> ts]

\* hashlib.sha256(raw.encode("utf-8")).hexdigest(): the digest is not
\* computed; it is taken to be collision-free, so it is a tag on its input.
Sha256Hex(raw) == <<"sha256:">> \o raw

\* A variant that also hashes the capture timestamp.
BuildUniqueKey_WithTimestamp(row) ==
    Sha256Hex(row["project_name"] \o <<"-">> \o row["company_name"] \o <<"-">>
              \o row["fund_collection_start_date"] \o <<"-">>
              \o row["scraped_date"])

\* build_unique_key: raw = f"{project_name}-{company_name}-{start_date}".
BuildUniqueKey(row) ==
    Sha256Hex(row["project_name"] \o <<"-">> \o row["company_name"] \o <<"-">>
              \o row["fund_collection_start_date"])

\* row["unique_key"] = ...: the dict with the key set or replaced.
WithUniqueKey(row, key) ==
    [k \in DOMAIN row \cup {"unique_key"} |->
        IF k = "unique_key" THEN key ELSE row[k]]

KStart ==
    /\ rows \in {<<MkRow(p1, c1, d1, <<"t1">>), MkRow(p2, c2, d2, ts)>> :
                    p1 \in Names, c1 \in Names, d1 \in KeyDates,
                    p2 \in Names, c2 \in Names, d2 \in KeyDates,
                    ts \in ScrapedDates}
    /\ attach_count = 0
    /\ first_keys = <<>>

KRest ==
    /\ rows = <<>>
    /\ attach_count = 0
    /\ first_keys = <<>>

\* attach_unique_keys(rows): every row gets its unique_key.
AttachUniqueKeys ==
    /\ attach_count < 2
    /\ UNCHANGED <<t_vars, m_vars, f_vars, d_vars, a_vars, r_vars,
                 x_vars, s_vars>>
    /\ rows' = [i \in 1..Len(rows) |-> WithUniqueKey(rows[i], BuildUniqueKey(rows[i]))]
    /\ attach_count' = attach_count + 1
    /\ first_keys' = IF attach_count = 0
                     THEN [i \in 1..Len(rows) |-> BuildUniqueKey(rows[i])]
                     ELSE first_keys

\* The same logical records scraped again by a later run: the capture
\* timestamp is new, the listing fields are the same.
ScrapeAgain ==
    /\ attach_count = 1
    /\ UNCHANGED <<t_vars, m_vars, f_vars, d_vars, a_vars, r_vars,
                 x_vars, s_vars>>
    /\ \E ts \in ScrapedDates :
          /\ \E i \in 1..Len(rows) : rows[i]["scraped_date"] # ts
          /\ rows' = [i \in 1..Len(rows) |->
                        [rows[i] EXCEPT !["scraped_date"] = ts]]
    /\ UNCHANGED <<attach_count, first_keys>>

KNext ==
    \/ AttachUniqueKeys
    \/ ScrapeAgain

(***************************************************************************)
(* The platform dispatcher.                                                *)
(*                                                                         *)
(* An outbound URL is a tuple of tokens: the scheme "http:", the           *)
(* characters "/", "?", "[" and "]", and host names. No host pattern of    *)
(* the dispatcher occurs in the concatenation of tokens other than as a    *)
(* whole (lower-cased) token, so `pattern in text` is membership of the    *)
(* pattern among the lower-cased tokens of text.                           *)
(***************************************************************************)
HostTokens ==
    {"hamafarin.ir", "HAMAFARIN.IR", "fundocrowd.ir", "karencrowd.com",
     "ifund.ir", "zeema.fund", "example.com"}

UrlTokens == HostTokens \cup {"http:", "/", "?", "[", "]"}

Urls == SeqsUpTo(UrlTokens, MaxUrlLen)

\* str.lower() of one token.
LowerToken(tok) == IF tok = "HAMAFARIN.IR" THEN "hamafarin.ir" ELSE tok

\* str.lower().
Lower(text) == [i \in 1..Len(text) |-> LowerToken(text[i])]

\* `pattern in text`.
Contains(text, pattern) == pattern \in Range(text)

\* Python's text[n:] (1-based: the tokens after the first n).
Drop(text, n) == SubSeq(text, n + 1, Len(text))

\* urlsplit: `i = url.find(':')`; when what precedes the first colon is a
\* scheme (host tokens are made of scheme characters only), the rest is
\* what follows the colon, else the url itself.
AfterScheme(url) ==
    LET colons == {i \in 1..Len(url) : url[i] = "http:"}
    IN  IF colons = {} THEN url
        ELSE LET i == CHOOSE c \in colons : \A e \in colons : c <= e
             IN  IF \A j \in 1..(i - 1) : url[j] \in HostTokens
                 THEN Drop(url, i)
                 ELSE url

\* urlsplit: `if url[:2] == '//'`.
HasNetloc(url) ==
    LET rest == AfterScheme(url)
    IN  Len(rest) >= 2 /\ rest[1] = "/" /\ rest[2] = "/"

\* _splitnetloc(url, 2): up to the first of '/', '?' (and '#').
Netloc(url) ==
    IF ~HasNetloc(url) THEN <<>>
    ELSE LET rest == Drop(AfterScheme(url), 2)
             ends == {i \in 1..Len(rest) : rest[i] \in {"/", "?"}}
         IN  IF ends = {} THEN rest
             ELSE SubSeq(rest, 1, (CHOOSE e \in ends : \A g \in ends : e <= g) - 1)

\* urlsplit raises ValueError("Invalid IPv6 URL") on a netloc with one kind
\* of square bracket only. On a netloc with both, Python before 3.11.4
\* returns and later versions validate the bracketed host as an IP address
\* and raise, no token here being one: both outcomes are kept.
UrlParseOutcomes(url) ==
    LET n == Netloc(url)
    IN  IF Contains(n, "[") /\ Contains(n, "]") THEN {"returns", "raises"}
        ELSE IF Contains(n, "[") \/ Contains(n, "]") THEN {"raises"}
        ELSE {"returns"}

\* The if/elif chain of PlatformDetailScraper.scrape on
\* domain = urlparse(project.platform_url).netloc.lower().
SelectByDomain(domain) ==
    IF Contains(domain, "hamafarin.ir") THEN "_scrape_hamafarin"
    ELSE IF Contains(domain, "fundocrowd.ir") THEN "_scrape_fundocrowd"
    ELSE IF Contains(domain, "karencrowd.com") THEN "_scrape_karencrowd"
    ELSE IF Contains(domain, "ifund.ir") THEN "_scrape_ifund"
    ELSE IF Contains(domain, "zeema.fund") THEN "_scrape_zeema"
    ELSE "_scrape_generic"

\* The if/elif chain of IFBScraper._scrape_single_platform on
\* domain = url.lower().
SelectByUrlV7(domain) ==
    IF Contains(domain, "hamafarin.ir") THEN "_scrape_hamafarin"
    ELSE IF Contains(domain, "fundocrowd.ir") THEN "_scrape_fundocrowd"
    ELSE IF Contains(domain, "karencrowd.com") THEN "_scrape_karencrowd"
    ELSE "_scrape_generic"

DStart ==
    /\ d_pc = "ready"
    /\ variant \in {"main", "v7"}
    /\ platform_url \in Urls
    /\ selected = "none"

DRest ==
    /\ d_pc = "ready"
    /\ variant = "main"
    /\ platform_url = <<>>
    /\ selected = "none"

\* PlatformDetailScraper.scrape(project).
Scrape ==
    /\ d_pc = "ready"
    /\ UNCHANGED <<t_vars, m_vars, f_vars, k_vars, a_vars, r_vars,
                 x_vars, s_vars>>
    /\ variant = "main"
    /\ IF platform_url = <<>>
       THEN /\ d_pc' = "done"
            /\ selected' = "none"
       ELSE \E outcome \in UrlParseOutcomes(platform_url) :
               IF outcome = "raises"
               THEN /\ d_pc' = "raised"
                    /\ selected' = "none"
               ELSE /\ d_pc' = "done"
                    /\ selected' = SelectByDomain(Lower(Netloc(platform_url)))
    /\ UNCHANGED <<variant, platform_url>>

\* IFBScraper._scrape_single_platform(project).
ScrapeSinglePlatform ==
    /\ d_pc = "ready"
    /\ UNCHANGED <<t_vars, m_vars, f_vars, k_vars, a_vars, r_vars,
                 x_vars, s_vars>>
    /\ variant = "v7"
    /\ d_pc' = "done"
    /\ selected' = IF platform_url = <<>> THEN "none"
                   ELSE SelectByUrlV7(Lower(platform_url))
    /\ UNCHANGED <<variant, platform_url>>

DNext ==
    \/ Scrape
    \/ ScrapeSinglePlatform

(***************************************************************************)
(* The site adapters (src/main.py:346-783, src/v7.py:335-601) and the      *)
(* merge of their result into the record (src/main.py:919-921).            *)
(*                                                                         *)
(* A title is a tuple of tokens: words and the blank " ". No word occurs   *)
(* inside another, so `a in b` on the strings is the occurrence of the     *)
(* tokens of a as a contiguous run of the tokens of b. A Python dict is a  *)
(* function on its keys.                                                   *)
(***************************************************************************)
EmptyDict == [k \in {} |-> PyNone]

\* project.project_name as _extract_current_page_projects stores it
\* (cells[1].text.strip(); the cell can be blank).
RecordTitles ==
    { <<"Alpha", " ", "Project">>, <<"Alpha">>, <<"Beta">>, <<>> }

\* The card has no element of the title selector (card.find returns None).
NoTitleElem == <<PyNone>>

\* title_elem.text of a card, surrounding whitespace included.
CardTitles ==
    { <<"Alpha", " ", "Project">>,
      <<"Alpha", " ", "Project", " ", "Extended">>,
      <<"Alpha">>,
      <<" ", "Alpha", " ", "Project", " ">>,
      <<>> }

\* The cards soup.find_all returns, in document order; pos is the position.
CardLists ==
    {[i \in 1..Len(ts) |-> [title |-> ts[i], pos |-> i]] :
        ts \in SeqsUpTo(CardTitles \cup {NoTitleElem}, MaxCards)}

\* str.strip().
Strip(text) ==
    LET keep == {i \in 1..Len(text) : text[i] # " "}
    IN  IF keep = {} THEN <<>>
        ELSE SubSeq(text, CHOOSE i \in keep : \A j \in keep : i <= j,
                          CHOOSE i \in keep : \A j \in keep : i >= j)

\* `a in b` for two strings.
IsSubstring(a, b) ==
    \E i \in 1..(Len(b) - Len(a) + 1) : SubSeq(b, i, i + Len(a) - 1) = a

SiteAdapters ==
    {"_scrape_hamafarin", "_scrape_fundocrowd", "_scrape_karencrowd",
     "_scrape_ifund", "_scrape_zeema"}

\* The keys the card extractor of an adapter assigns, in source order; for
\* the generic adapter the keys _scrape_generic assigns.
CardKeys(a) ==
    CASE a = "_scrape_hamafarin" ->
           <<"title_on_platform", "project_id_on_platform", "thumbnail_url",
             "financial_institution", "applicant_name", "status_on_platform",
             "progress_percentage", "target_amount", "expected_return",
             "project_duration", "capital_guarantee", "project_type",
             "project_symbol", "start_date_on_platform", "investor_count",
             "profit_payment_frequency">>
      [] a = "_scrape_fundocrowd" ->
           <<"title_on_platform", "thumbnail_url", "applicant_name",
             "target_amount", "progress_percentage", "progress_width",
             "project_duration", "expected_return", "details_page_url">>
      [] a = "_scrape_karencrowd" ->
           <<"title_on_platform", "project_id_on_platform", "thumbnail_url",
             "target_amount", "project_duration", "expected_return">>
      [] a = "_scrape_ifund" ->
           <<"title_on_platform", "expected_return", "project_symbol",
             "collected_amount", "target_amount", "platform_name",
             "applicant_name", "financial_institution", "project_duration",
             "project_symbol", "project_type", "profit_payment_frequency",
             "capital_guarantee">>
      [] a = "_scrape_zeema" ->
           <<"title_on_platform", "thumbnail_url", "applicant_name",
             "target_amount", "expected_return", "project_duration",
             "financial_institution", "capital_guarantee", "collected_amount",
             "progress_percentage", "investor_count">>
      [] OTHER ->
           <<"target_amount", "expected_return", "project_duration",
             "investor_count", "applicant_name", "platform_name">>

\* _extract_fundocrowd_card, _extract_ifund_card and _extract_zeema_card
\* wrap their body in try/except and return d; _extract_hamafarin_card and
\* _extract_karencrowd_card have no try.
HasInnerTry(a) == a \in {"_scrape_fundocrowd", "_scrape_ifund", "_scrape_zeema"}

\* The text a card shows for a key.
CardTags == <<"card1", "card2", "card3", "card4">>

CardValue(card, key) ==
    IF key = "title_on_platform" THEN Strip(card.title)
    ELSE CardTags[card.pos]

\* d after the first n assignments of the card extractor.
ExtractCard(a, card, n) ==
    [k \in {CardKeys(a)[i] : i \in 1..n} |-> CardValue(card, k)]

\* A variant of _scrape_generic that also assigns d['status'].
ExtractGenericPage_WritesStatus(n) ==
    [k \in {CardKeys("_scrape_generic")[i] : i \in 1..n} \cup {"status"}
        |-> "page"]

\* d after the first n assignments of _scrape_generic (from the page text).
ExtractGenericPage(n) ==
    [k \in {CardKeys("_scrape_generic")[i] : i \in 1..n} |-> "page"]

\* The test of the card loop: `target in card_title or card_title in target`
\* on the stripped texts; _scrape_zeema tests `target in title_span.text`.
Matches(a, target, card) ==
    /\ card.title # NoTitleElem
    /\ IF a = "_scrape_zeema"
       THEN IsSubstring(target, card.title)
       ELSE \/ IsSubstring(target, Strip(card.title))
            \/ IsSubstring(Strip(card.title), target)

\* A variant of the card loop without `break`: the last matching card.
FirstMatch_NoBreak(a, target, cs) ==
    LET hits == {i \in 1..Len(cs) : Matches(a, target, cs[i])}
    IN  IF hits = {} THEN 0 ELSE CHOOSE i \in hits : \A j \in hits : i >= j

\* The card loop: the position of the first card that passes the test, 0
\* when the loop ends without one.
FirstMatch(a, target, cs) ==
    LET hits == {i \in 1..Len(cs) : Matches(a, target, cs[i])}
    IN  IF hits = {} THEN 0 ELSE CHOOSE i \in hits : \A j \in hits : i <= j

\* The fields of IFBProject filled by _extract_current_page_projects.
ListingFields ==
    {"row_number", "project_name", "company_name", "national_id",
     "platform_url", "status", "fund_collection_start_date",
     "project_end_date", "description", "documents_url", "scraped_date",
     "ifb_project_id"}

\* The fields of IFBProject left at their default None.
PlatformFields ==
    {"target_amount", "collected_amount", "progress_percentage",
     "expected_return", "project_duration", "capital_guarantee",
     "project_type", "project_symbol", "investor_count",
     "profit_payment_frequency", "start_date_on_platform", "platform_name",
     "financial_institution", "project_id_on_platform", "thumbnail_url",
     "applicant_name"}

\* proj.to_dict() of a listing record with the given title.
ToDict(title) ==
    [k \in ListingFields \cup PlatformFields |->
        IF k = "project_name" THEN title
        ELSE IF k \in ListingFields THEN "listing"
        ELSE PyNone]

\* d1.update(d2).
DictUpdate(d1, d2) ==
    [k \in DOMAIN d1 \cup DOMAIN d2 |-> IF k \in DOMAIN d2 THEN d2[k] ELSE d1[k]]

AStart ==
    /\ a_pc = "ready"
    /\ adapter \in SiteAdapters \cup {"_scrape_generic"}
    /\ project \in {ToDict(t) : t \in RecordTitles}
    /\ cards \in IF adapter = "_scrape_generic" THEN {<<>>} ELSE CardLists
    /\ chosen = 0
    /\ built = EmptyDict
    /\ failed = "none"
    /\ details = EmptyDict
    /\ combined = EmptyDict

ARest ==
    /\ a_pc = "ready"
    /\ adapter = "_scrape_generic"
    /\ project = EmptyDict
    /\ cards = <<>>
    /\ chosen = 0
    /\ built = EmptyDict
    /\ failed = "none"
    /\ details = EmptyDict
    /\ combined = EmptyDict

\* The head of every adapter: driver.get(project.platform_url), the click on
\* the "all plans" link or its fallback driver.get, the scrolling and the
\* parse of the page. An exception here reaches the `except Exception` of
\* the adapter, which returns details as initialised: {}.
LoadPlatformPage ==
    /\ a_pc = "ready"
    /\ UNCHANGED <<t_vars, m_vars, f_vars, k_vars, d_vars, r_vars,
                 x_vars, s_vars>>
    /\ \E ok \in BOOLEAN :
          IF ok
          THEN /\ a_pc' = "cards"
               /\ UNCHANGED failed
          ELSE /\ a_pc' = "returned"
               /\ failed' = "navigation"
    /\ UNCHANGED <<adapter, project, cards, chosen, built, details, combined>>

\* The card loop of a site adapter and the extraction from the card it
\* stops at. The extractor makes its assignments in order; n of them are
\* made when it ends, all of them unless an exception ends it. With a try
\* of its own the extractor returns d as built; without one the exception
\* leaves the adapter's `details = ...` unassigned and the adapter returns
\* {}. _scrape_fundocrowd then adds what the details page gives when
\* expected_return or project_duration is missing.
MatchAndExtract ==
    /\ a_pc = "cards"
    /\ UNCHANGED <<t_vars, m_vars, f_vars, k_vars, d_vars, r_vars,
                 x_vars, s_vars>>
    /\ adapter \in SiteAdapters
    /\ LET target == Strip(project["project_name"])
           i == FirstMatch(adapter, target, cards)
       IN  /\ chosen' = i
           /\ IF i = 0
              THEN /\ details' = EmptyDict
                   /\ UNCHANGED <<built, failed>>
              ELSE \E n \in 0..Len(CardKeys(adapter)) :
                      LET d == ExtractCard(adapter, cards[i], n)
                          whole == n = Len(CardKeys(adapter))
                      IN  /\ built' = d
                          /\ failed' = IF whole THEN "none" ELSE "parsing"
                          /\ IF ~whole /\ ~HasInnerTry(adapter)
                             THEN details' = EmptyDict
                             ELSE IF /\ adapter = "_scrape_fundocrowd"
                                     /\ \/ "expected_return" \notin DOMAIN d
                                        \/ "project_duration" \notin DOMAIN d
                             THEN \E found \in BOOLEAN :
                                     details' =
                                        IF found
                                        THEN DictUpdate(d,
                                               [k \in {"profit_payment_frequency"}
                                                   |-> CardTags[i]])
                                        ELSE d
                             ELSE details' = d
    /\ a_pc' = "returned"
    /\ UNCHANGED <<adapter, project, cards, combined>>

\* _scrape_generic after the page is loaded: the regular expressions on the
\* page text and the platform name, all inside its try; d is returned as
\* built.
ExtractGeneric ==
    /\ a_pc = "cards"
    /\ UNCHANGED <<t_vars, m_vars, f_vars, k_vars, d_vars, r_vars,
                 x_vars, s_vars>>
    /\ adapter = "_scrape_generic"
    /\ \E n \in 0..Len(CardKeys(adapter)) :
          /\ built' = ExtractGenericPage(n)
          /\ details' = ExtractGenericPage(n)
          /\ failed' = IF n = Len(CardKeys(adapter)) THEN "none" ELSE "parsing"
    /\ a_pc' = "returned"
    /\ UNCHANGED <<adapter, project, cards, chosen, combined>>

\* combined = proj.to_dict(); combined.update(details).
MergeDetails ==
    /\ a_pc = "returned"
    /\ UNCHANGED <<t_vars, m_vars, f_vars, k_vars, d_vars, r_vars,
                 x_vars, s_vars>>
    /\ combined' = DictUpdate(project, details)
    /\ a_pc' = "merged"
    /\ UNCHANGED <<adapter, project, cards, chosen, built, failed, details>>

ANext ==
    \/ LoadPlatformPage
    \/ MatchAndExtract
    \/ ExtractGeneric
    \/ MergeDetails

(***************************************************************************)
(* main (src/main.py:876-956, src/v7.py:626-663): the run from the         *)
(* credentials to the closing of the browser; and the construction of the  *)
(* store client of src/sheets.py, whose caller is not part of the source.  *)
(***************************************************************************)
\* What main finds when it looks for the Google credentials: the
\* environment variable GOOGLE_CREDENTIALS (valid JSON of a valid account,
\* text that is not JSON, JSON that from_service_account_info refuses) or,
\* without it, the file service_account.json (valid, absent, refused).
CredCases ==
    {"env_valid", "env_unparsable", "env_rejected",
     "file_valid", "file_missing", "file_rejected"}

\* What GoogleSheetsRepository._build_client finds: the environment
\* variable GOOGLE_SERVICE_ACCOUNT_JSON, valid, not set, not JSON, refused.
RepoCredCases == {"env_valid", "env_missing", "env_unparsable", "env_rejected"}

\* sheets_handler is not None after lines 883-895.
HandlerOf(c) == c # "env_unparsable"

\* sheets_handler.client is not None: _authenticate returned
\* gspread.authorize(credentials) and not None.
ClientOf(c) == c \in {"env_valid", "file_valid"}

RStart ==
    /\ program \in {"main", "v7", "sheets"}
    /\ r_pc = IF program = "v7" THEN "scraper" ELSE "start"
    /\ creds \in CASE program = "main" -> CredCases
                  [] program = "sheets" -> RepoCredCases
                  [] OTHER -> {"none"}
    /\ has_handler = FALSE
    /\ has_client = FALSE
    /\ scraper_made = FALSE
    /\ n_projects = 0
    /\ n_enriched = 0
    /\ enriched_from = <<>>
    /\ saved = FALSE
    /\ store_calls = 0
    /\ close_calls = 0
    /\ driver_ops = 0
    /\ cause = "none"

RRest ==
    /\ program = "main"
    /\ r_pc = "start"
    /\ creds = "file_missing"
    /\ has_handler = FALSE
    /\ has_client = FALSE
    /\ scraper_made = FALSE
    /\ n_projects = 0
    /\ n_enriched = 0
    /\ enriched_from = <<>>
    /\ saved = FALSE
    /\ store_calls = 0
    /\ close_calls = 0
    /\ driver_ops = 0
    /\ cause = "none"

\* Lines 883-895 of src/main.py: json.loads and GoogleSheetsHandler(...)
\* inside try/except, or GoogleSheetsHandler(credentials_path=...), whose
\* _authenticate catches every exception and returns None.
ReadCredentials ==
    /\ r_pc = "start"
    /\ UNCHANGED <<t_vars, m_vars, f_vars, k_vars, d_vars, a_vars,
                 x_vars, s_vars>>
    /\ program = "main"
    /\ r_pc' = "scraper"
    /\ has_handler' = HandlerOf(creds)
    /\ has_client' = ClientOf(creds)
    /\ UNCHANGED <<program, creds, scraper_made, n_projects, n_enriched, enriched_from, saved,
                   store_calls, close_calls, driver_ops, cause>>

\* GoogleSheetsRepository(spreadsheet_id) of src/sheets.py: _build_client
\* reads os.environ[...], parses it and builds the credentials, then
\* __init__ opens the spreadsheet; nothing of it is inside a try, so a
\* missing variable (KeyError), text that is not JSON, refused credentials
\* or an unreachable backend raise out of the constructor.
BuildRepository ==
    /\ r_pc = "start"
    /\ UNCHANGED <<t_vars, m_vars, f_vars, k_vars, d_vars, a_vars,
                 x_vars, s_vars>>
    /\ program = "sheets"
    /\ IF creds # "env_valid"
       THEN /\ r_pc' = "crashed"
            /\ UNCHANGED <<has_handler, has_client>>
       ELSE \E reachable \in BOOLEAN :
               /\ has_client' = TRUE
               /\ IF reachable
                  THEN /\ r_pc' = "built"
                       /\ has_handler' = TRUE
                  ELSE /\ r_pc' = "crashed"
                       /\ UNCHANGED has_handler
    /\ UNCHANGED <<program, creds, scraper_made, n_projects, n_enriched, enriched_from, saved,
                   store_calls, close_calls, driver_ops, cause>>

\* scraper = IFBScraper(headless=False), before the try: an exception of the
\* constructor (no driver) ends main with no scraper to close.
CreateScraper ==
    /\ r_pc = "scraper"
    /\ UNCHANGED <<t_vars, m_vars, f_vars, k_vars, d_vars, a_vars,
                 x_vars, s_vars>>
    /\ \E ok \in BOOLEAN :
          IF ok
          THEN /\ r_pc' = "traverse"
               /\ scraper_made' = TRUE
               /\ UNCHANGED cause
          ELSE /\ r_pc' = "crashed"
               /\ cause' = "scraper"
               /\ UNCHANGED scraper_made
    /\ UNCHANGED <<program, creds, has_handler, has_client, n_projects,
                   n_enriched, enriched_from, saved, store_calls, close_calls, driver_ops>>

\* A variant whose early return leaves main without closing the browser.
Traverse_ReturnSkipsClose ==
    /\ r_pc = "traverse"
    /\ UNCHANGED <<t_vars, m_vars, f_vars, k_vars, d_vars, a_vars,
                 x_vars, s_vars>>
    /\ driver_ops' = driver_ops + 1
    /\ \E n \in 0..MaxData, raises \in BOOLEAN :
          IF raises
          THEN /\ r_pc' = "except"
               /\ cause' = "traversal"
               /\ UNCHANGED n_projects
          ELSE /\ n_projects' = n
               /\ r_pc' = IF n = 0 THEN "exited" ELSE "enrich"
               /\ UNCHANGED cause
    /\ UNCHANGED <<program, creds, has_handler, has_client, scraper_made,
                   n_enriched, enriched_from, saved, store_calls, close_calls>>

\* projects = scraper.scrape_all_pages() and `if not projects: return`.
\* scrape_all_pages raises when driver.get(IFB_MAIN_URL) or the extraction
\* of a page does.
Traverse ==
    /\ r_pc = "traverse"
    /\ UNCHANGED <<t_vars, m_vars, f_vars, k_vars, d_vars, a_vars,
                 x_vars, s_vars>>
    /\ driver_ops' = driver_ops + 1
    /\ \E n \in 0..MaxData, raises \in BOOLEAN :
          IF raises
          THEN /\ r_pc' = "except"
               /\ cause' = "traversal"
               /\ UNCHANGED n_projects
          ELSE /\ n_projects' = n
               /\ r_pc' = IF n = 0 THEN "finally" ELSE "enrich"
               /\ UNCHANGED cause
    /\ UNCHANGED <<program, creds, has_handler, has_client, scraper_made,
                   n_enriched, enriched_from, saved, store_calls, close_calls>>

\* What scrape / _scrape_single_platform does for one record: an adapter
\* returns the mapping of the card that matched, {} when no card matched,
\* {} when an exception was caught inside the adapter; the dispatcher
\* returns {} for an empty platform_url; or the call raises (urlparse on a
\* URL it refuses).
EnrichOutcomes == {"matched", "no_match", "empty_url", "caught", "raised"}

\* One turn of the enrichment loop. In src/main.py detail_scraper.scrape is
\* called outside any try, so what it raises (the ValueError of urlparse)
\* leaves the loop; in src/v7.py the call is inside try/except and combined
\* is appended whatever happened.
EnrichOne ==
    /\ r_pc = "enrich"
    /\ UNCHANGED <<t_vars, m_vars, f_vars, k_vars, d_vars, a_vars,
                 x_vars, s_vars>>
    /\ n_enriched < n_projects
    /\ driver_ops' = driver_ops + 1
    /\ \E outcome \in EnrichOutcomes :
          IF outcome = "raised" /\ program = "main"
          THEN /\ r_pc' = "except"
               /\ cause' = "enrichment"
               /\ UNCHANGED <<n_enriched, enriched_from>>
          ELSE /\ n_enriched' = n_enriched + 1
               /\ enriched_from' = Append(enriched_from, n_enriched + 1)
               /\ r_pc' = IF n_enriched + 1 = n_projects THEN "save" ELSE "enrich"
               /\ UNCHANGED cause
    /\ UNCHANGED <<program, creds, has_handler, has_client, scraper_made,
                   n_projects, saved, store_calls, close_calls>>

\* The JSON and CSV files (src/main.py:925-933, save_combined_data in
\* src/v7.py). src/v7.py has no spreadsheet step.
SaveLocal ==
    /\ r_pc = "save"
    /\ UNCHANGED <<t_vars, m_vars, f_vars, k_vars, d_vars, a_vars,
                 x_vars, s_vars>>
    /\ \E ok \in BOOLEAN :
          IF ok
          THEN /\ saved' = TRUE
               /\ r_pc' = IF program = "main" THEN "store" ELSE "finally"
               /\ UNCHANGED cause
          ELSE /\ r_pc' = "except"
               /\ cause' = "files"
               /\ UNCHANGED saved
    /\ UNCHANGED <<program, creds, has_handler, has_client, scraper_made,
                   n_projects, n_enriched, enriched_from, store_calls, close_calls,
                   driver_ops>>

\* `if sheets_handler and sheets_handler.client: append_new_rows(...)`, else
\* the warning. An exception of append_new_rows (client.open or append_rows
\* failing: backend unreachable, token refused) reaches the except of main.
AppendToStore ==
    /\ r_pc = "store"
    /\ UNCHANGED <<t_vars, m_vars, f_vars, k_vars, d_vars, a_vars,
                 x_vars, s_vars>>
    /\ IF has_handler /\ has_client
       THEN /\ store_calls' = store_calls + 1
            /\ \E ok \in BOOLEAN :
                  IF ok
                  THEN /\ r_pc' = "finally"
                       /\ UNCHANGED cause
                  ELSE /\ r_pc' = "except"
                       /\ cause' = "store"
       ELSE /\ r_pc' = "finally"
            /\ UNCHANGED <<store_calls, cause>>
    /\ UNCHANGED <<program, creds, has_handler, has_client, scraper_made,
                   n_projects, n_enriched, enriched_from, saved, close_calls, driver_ops>>

\* except Exception: the error and the traceback are logged.
HandleException ==
    /\ r_pc = "except"
    /\ UNCHANGED <<t_vars, m_vars, f_vars, k_vars, d_vars, a_vars,
                 x_vars, s_vars>>
    /\ r_pc' = "finally"
    /\ UNCHANGED <<program, creds, has_handler, has_client, scraper_made,
                   n_projects, n_enriched, enriched_from, saved, store_calls, close_calls,
                   driver_ops, cause>>

\* finally: scraper.close(), that is driver.quit(); what quit raises leaves
\* main.
Cleanup ==
    /\ r_pc = "finally"
    /\ UNCHANGED <<t_vars, m_vars, f_vars, k_vars, d_vars, a_vars,
                 x_vars, s_vars>>
    /\ close_calls' = close_calls + 1
    /\ \E ok \in BOOLEAN :
          IF ok
          THEN /\ r_pc' = "exited"
               /\ UNCHANGED cause
          ELSE /\ r_pc' = "crashed"
               /\ UNCHANGED cause
    /\ UNCHANGED <<program, creds, has_handler, has_client, scraper_made,
                   n_projects, n_enriched, enriched_from, saved, store_calls, driver_ops>>

RNext ==
    \/ ReadCredentials
    \/ BuildRepository
    \/ CreateScraper
    \/ Traverse
    \/ EnrichOne
    \/ SaveLocal
    \/ AppendToStore
    \/ HandleException
    \/ Cleanup

(***************************************************************************)
(* IFBScraper._extract_current_page_projects (src/main.py:191-257,         *)
(* src/v7.py:188-252) and _extract_description_from_modal                  *)
(* (src/main.py:146-189, src/v7.py:139-186).                               *)
(*                                                                         *)
(* A row of the table is kept by what the loop reads of it: the number of  *)
(* its td cells, whether the <a> of cells[4] has an href (without one      *)
(* platform_link['href'] raises KeyError), and the numeric identifiers the *)
(* onclick of the details link and of the documents icon carry (PyNone: no *)
(* control, no onclick, or no match of the pattern).                       *)
(***************************************************************************)
\* IFB_MAIN_URL.
IFB_MAIN_URL == "https://www.ifb.ir/Finstars/AllCrowdFundingProject.aspx"

\* description = "توضیحات در دسترس نیست" / return "خطا در دریافت توضیحات".
DescUnavailable == "description unavailable"

DescError == "error reading the description"

\* The least number of td cells of a data row.
MinCells == 10

\* The first tr of the table: the header (th cells, no td).
HeaderTr ==
    [n |-> 0, cells |-> 0, href |-> TRUE, details |-> PyNone, docs |-> PyNone]

\* The tr elements that can follow it, n being the text of cells[0].
DataTrs(n) ==
    {[n |-> n, cells |-> MinCells - 1, href |-> TRUE, details |-> PyNone,
      docs |-> PyNone],
     [n |-> n, cells |-> MinCells, href |-> FALSE, details |-> "1",
      docs |-> "1"]}
    \cup {[n |-> n, cells |-> MinCells, href |-> TRUE, details |-> d,
            docs |-> g] : d \in {PyNone, "1"}, g \in {PyNone, "1", "2"}}

TrLists ==
    UNION {{<<HeaderTr>> \o [i \in 1..k |-> f[i]] :
              f \in {g \in [1..k -> UNION {DataTrs(n) : n \in 1..k}] :
                        \A i \in 1..k : g[i].n = i}} : k \in 0..MaxTrs}

\* f"{IFB_MAIN_URL}?doc_id={ifb_id}", and "" as the empty text.
DocumentsUrl(id) ==
    IF id = PyNone THEN <<>> ELSE <<IFB_MAIN_URL, "?doc_id=", id>>

\* What _extract_description_from_modal can do after showDesc(...) and the
\* sleep: path, the description it returns and whether the modal is still
\* displayed when it returns.
\*   scripted: the script reads a text, the modal is hidden, text.strip();
\*   static: the script reads '', the re-parse finds #Message, the modal is
\*           hidden, get_text (which can be empty);
\*   none: neither finds a text, `return "توضیحات در دسترس نیست"`;
\*   raised: a call on the browser raises (showDesc itself, a read, the
\*           script that hides the modal), caught by the except.
ModalOutcomes ==
    {[path |-> "scripted", description |-> "text", open |-> FALSE],
     [path |-> "static", description |-> "text", open |-> FALSE],
     [path |-> "static", description |-> "", open |-> FALSE],
     [path |-> "none", description |-> DescUnavailable, open |-> TRUE],
     [path |-> "raised", description |-> DescError, open |-> TRUE],
     [path |-> "raised", description |-> DescError, open |-> FALSE]}

\* The identifier the record is built with. src/main.py: ifb_id, from the
\* details link and, `if not ifb_id`, from the documents icon. src/v7.py:
\* doc_id, from the documents icon alone (desc_id is used for the modal
\* only).
RecordId(tr) ==
    IF extractor = "main"
    THEN IF tr.details # PyNone THEN tr.details ELSE tr.docs
    ELSE tr.docs

\* IFBProject(...) of the row; src/v7.py has no ifb_project_id field.
MkRecord(tr, description) ==
    IF extractor = "main"
    THEN [row_number |-> tr.n, description |-> description,
          documents_url |-> DocumentsUrl(RecordId(tr)),
          ifb_project_id |-> RecordId(tr)]
    ELSE [row_number |-> tr.n, description |-> description,
          documents_url |-> DocumentsUrl(RecordId(tr))]

XStart ==
    /\ x_pc = "start"
    /\ extractor \in {"main", "v7"}
    /\ has_table \in BOOLEAN
    /\ trs \in TrLists
    /\ row_i = 2
    /\ extracted = <<>>
    /\ modal_open = FALSE

XRest ==
    /\ x_pc = "start"
    /\ extractor = "main"
    /\ has_table = TRUE
    /\ trs = <<HeaderTr>>
    /\ row_i = 2
    /\ extracted = <<>>
    /\ modal_open = FALSE

\* soup.find('table', ...); `if not table: return projects`;
\* rows = table.find_all('tr'); the loop starts at rows[1:].
FindTable ==
    /\ x_pc = "start"
    /\ UNCHANGED <<t_vars, m_vars, f_vars, k_vars, d_vars, a_vars, r_vars,
                   s_vars>>
    /\ x_pc' = IF has_table THEN "rows" ELSE "returned"
    /\ UNCHANGED <<extractor, has_table, trs, row_i, extracted, modal_open>>

\* A variant in which the exception of a row ends the loop.
ProcessRow_RaiseEndsLoop ==
    /\ x_pc = "rows"
    /\ UNCHANGED <<t_vars, m_vars, f_vars, k_vars, d_vars, a_vars, r_vars,
                   s_vars>>
    /\ row_i <= Len(trs)
    /\ LET tr == trs[row_i] IN
         IF tr.cells < MinCells
         THEN /\ row_i' = row_i + 1
              /\ UNCHANGED <<x_pc, extracted>>
         ELSE IF ~tr.href
         THEN /\ x_pc' = "returned"
              /\ UNCHANGED <<row_i, extracted>>
         ELSE IF tr.details # PyNone
         THEN /\ x_pc' = "modal"
              /\ UNCHANGED <<row_i, extracted>>
         ELSE /\ extracted' = Append(extracted, MkRecord(tr, DescUnavailable))
              /\ row_i' = row_i + 1
              /\ UNCHANGED x_pc
    /\ UNCHANGED <<extractor, has_table, trs, modal_open>>

\* One turn of `for row in rows[1:]` up to the call of the description step:
\* `if len(cells) >= 10`, the try whose except logs and goes on, and, for a
\* row whose details link carries no identifier, the rest of the turn.
ProcessRow ==
    /\ x_pc = "rows"
    /\ UNCHANGED <<t_vars, m_vars, f_vars, k_vars, d_vars, a_vars, r_vars,
                   s_vars>>
    /\ row_i <= Len(trs)
    /\ LET tr == trs[row_i] IN
         IF tr.cells < MinCells \/ ~tr.href
         THEN /\ row_i' = row_i + 1
              /\ UNCHANGED <<x_pc, extracted>>
         ELSE IF tr.details # PyNone
         THEN /\ x_pc' = "modal"
              /\ UNCHANGED <<row_i, extracted>>
         ELSE /\ extracted' = Append(extracted, MkRecord(tr, DescUnavailable))
              /\ row_i' = row_i + 1
              /\ UNCHANGED x_pc
    /\ UNCHANGED <<extractor, has_table, trs, modal_open>>

\* description = self._extract_description_from_modal(...) and the rest of
\* the turn: the documents icon, documents_url, projects.append(project).
\* A modal left displayed by an earlier row stays displayed unless this call
\* hides it.
ExtractDescriptionFromModal ==
    /\ x_pc = "modal"
    /\ UNCHANGED <<t_vars, m_vars, f_vars, k_vars, d_vars, a_vars, r_vars,
                   s_vars>>
    /\ \E o \in ModalOutcomes :
          /\ modal_open' = IF o.path = "raised" THEN (modal_open \/ o.open)
                           ELSE o.open
          /\ extracted' = Append(extracted, MkRecord(trs[row_i], o.description))
    /\ row_i' = row_i + 1
    /\ x_pc' = "rows"
    /\ UNCHANGED <<extractor, has_table, trs>>

\* `return projects` after the last row.
ReturnProjects ==
    /\ x_pc = "rows"
    /\ UNCHANGED <<t_vars, m_vars, f_vars, k_vars, d_vars, a_vars, r_vars,
                   s_vars>>
    /\ row_i > Len(trs)
    /\ x_pc' = "returned"
    /\ UNCHANGED <<extractor, has_table, trs, row_i, extracted, modal_open>>

XNext ==
    \/ FindTable
    \/ ProcessRow
    \/ ExtractDescriptionFromModal
    \/ ReturnProjects

(***************************************************************************)
(* The calls made on the browser, in the order the code makes them         *)
(* (src/main.py; src/v7.py has the same calls in the functions it has).    *)
(*                                                                         *)
(* A function is the list of its calls. op is "nav" (driver.get, the       *)
(* __doPostBack script, click(), the showDesc script), "settle"            *)
(* (time.sleep), "read" (page_source, find_element, the wait for the grid, *)
(* the script that reads #Message) or "script" (current_url, the script    *)
(* that hides the modal, scrollTo). ok is where the code goes when the     *)
(* call returns (more than one place where a condition on the page         *)
(* decides), exc where it goes when the call raises; 0 leaves the          *)
(* function.                                                               *)
(***************************************************************************)
Ins(op, line, ok, exc) == [op |-> op, line |-> line, ok |-> ok, exc |-> exc]

\* driver.get(project.platform_url); time.sleep(...); page_source.
GetSettleRead(l) ==
    <<Ins("nav", l, {2}, 0), Ins("settle", l + 1, {3}, 0),
      Ins("read", l + 2, {0}, 0)>>

\* _scrape_hamafarin (l = 350) and _scrape_karencrowd (l = 535): the get,
\* `if ... not in self.driver.current_url`, the inner try (find_element,
\* click, sleep) whose bare except does the direct get, _scroll_page, and
\* page_source.
GetAssistScrollRead(l) ==
    <<Ins("nav", l, {2}, 0), Ins("settle", l + 1, {3}, 0),
      Ins("script", l + 3, {4, 9}, 0),
      Ins("read", l + 5, {5}, 7), Ins("nav", l + 6, {6}, 7),
      Ins("settle", l + 7, {9}, 0),
      Ins("nav", l + 9, {8}, 0), Ins("settle", l + 10, {9}, 0),
      Ins("script", 787, {10}, 0), Ins("settle", 788, {11}, 0),
      Ins("script", 787, {12}, 0), Ins("settle", 788, {13}, 0),
      Ins("read", l + 13, {0}, 0)>>

Code(fn) ==
    CASE fn = "open_listing" ->
           <<Ins("nav", 265, {2}, 0), Ins("settle", 266, {0}, 0)>>
      [] fn = "extract_page" -> <<Ins("read", 193, {0}, 0)>>
      [] fn = "_navigate_to_page" ->
           <<Ins("nav", 136, {2}, 0), Ins("settle", 137, {3}, 0),
             Ins("read", 138, {0}, 0)>>
      [] fn = "_extract_description_from_modal" ->
           <<Ins("nav", 149, {2}, 0), Ins("settle", 150, {3}, 0),
             Ins("read", 156, {4, 5}, 0), Ins("script", 158, {0}, 0),
             Ins("read", 170, {6, 0}, 0), Ins("script", 174, {0}, 0)>>
      [] fn = "_scrape_hamafarin" -> GetAssistScrollRead(350)
      [] fn = "_scrape_karencrowd" -> GetAssistScrollRead(535)
      [] fn = "_scrape_fundocrowd" ->
           <<Ins("nav", 448, {2}, 0), Ins("settle", 449, {3}, 0),
             Ins("read", 451, {0, 4}, 0),
             Ins("nav", 518, {5}, 0), Ins("settle", 519, {6}, 0),
             Ins("read", 521, {0}, 0)>>
      [] fn = "_scrape_ifund" -> GetSettleRead(602)
      [] fn = "_scrape_zeema" -> GetSettleRead(673)
      [] fn = "_scrape_generic" -> GetSettleRead(755)
      [] fn = "enrich_delay" -> <<Ins("settle", 923, {0}, 0)>>

SiteFunctions ==
    {"_scrape_hamafarin", "_scrape_karencrowd", "_scrape_fundocrowd",
     "_scrape_ifund", "_scrape_zeema", "_scrape_generic"}

\* The functions that can run next: main calls scrape_all_pages (the get of
\* the listing, then per page the extraction with one description step per
\* row that has an identifier, then _navigate_to_page), then one adapter
\* per record, each followed by time.sleep (line 923). An exception of the
\* first get or of page_source ends the run in main's except; False from
\* _navigate_to_page ends the traversal.
NextFns(fn, raised) ==
    CASE fn = "none" -> {"open_listing"}
      [] fn = "open_listing" -> IF raised THEN {} ELSE {"extract_page"}
      [] fn = "extract_page" ->
           IF raised THEN {}
           ELSE {"_extract_description_from_modal", "_navigate_to_page"}
                \cup SiteFunctions
      [] fn = "_extract_description_from_modal" ->
           {"_extract_description_from_modal", "_navigate_to_page"}
           \cup SiteFunctions
      [] fn = "_navigate_to_page" ->
           IF raised THEN SiteFunctions ELSE {"extract_page"}
      [] fn \in SiteFunctions -> {"enrich_delay"}
      [] fn = "enrich_delay" -> SiteFunctions

\* The call the function is at.
At(op) == s_pc > 0 /\ Code(s_fn)[s_pc].op = op

SStart ==
    /\ s_fn = "none"
    /\ s_pc = 0
    /\ unsettled = FALSE
    /\ s_raised = FALSE
    /\ s_calls = 0

SRest == SStart

\* The next function is entered.
Call ==
    /\ s_pc = 0
    /\ UNCHANGED <<t_vars, m_vars, f_vars, k_vars, d_vars, a_vars, r_vars,
                   x_vars>>
    /\ s_calls < MaxCalls
    /\ \E fn \in NextFns(s_fn, s_raised) : s_fn' = fn
    /\ s_pc' = 1
    /\ s_raised' = FALSE
    /\ s_calls' = s_calls + 1
    /\ UNCHANGED unsettled

\* A call on the browser returns, or raises and control goes to the except
\* that encloses it.
Returns(next) ==
    /\ s_pc' = next
    /\ UNCHANGED s_raised

Raises ==
    /\ s_pc' = Code(s_fn)[s_pc].exc
    /\ s_raised' = (Code(s_fn)[s_pc].exc = 0)

\* driver.get, __doPostBack, click() or showDesc. A call that raises may
\* have started the navigation before it raised (a page that does not
\* finish loading raises TimeoutException out of get and click) or not.
Navigate ==
    /\ At("nav")
    /\ UNCHANGED <<t_vars, m_vars, f_vars, k_vars, d_vars, a_vars, r_vars,
                   x_vars>>
    /\ \/ \E next \in Code(s_fn)[s_pc].ok :
             /\ Returns(next)
             /\ unsettled' = TRUE
       \/ \E issued \in BOOLEAN :
             /\ Raises
             /\ unsettled' = (unsettled \/ issued)
    /\ UNCHANGED <<s_fn, s_calls>>

\* time.sleep(...).
Settle ==
    /\ At("settle")
    /\ UNCHANGED <<t_vars, m_vars, f_vars, k_vars, d_vars, a_vars, r_vars,
                   x_vars>>
    /\ \E next \in Code(s_fn)[s_pc].ok : Returns(next)
    /\ unsettled' = FALSE
    /\ UNCHANGED <<s_fn, s_calls>>

\* A read of the markup of the page.
ReadMarkup ==
    /\ At("read")
    /\ UNCHANGED <<t_vars, m_vars, f_vars, k_vars, d_vars, a_vars, r_vars,
                   x_vars>>
    /\ \/ \E next \in Code(s_fn)[s_pc].ok : Returns(next)
       \/ Raises
    /\ UNCHANGED <<s_fn, unsettled, s_calls>>

\* Any other call on the browser.
RunScript ==
    /\ At("script")
    /\ UNCHANGED <<t_vars, m_vars, f_vars, k_vars, d_vars, a_vars, r_vars,
                   x_vars>>
    /\ \/ \E next \in Code(s_fn)[s_pc].ok : Returns(next)
       \/ Raises
    /\ UNCHANGED <<s_fn, unsettled, s_calls>>

SNext ==
    \/ Call
    \/ Navigate
    \/ Settle
    \/ ReadMarkup
    \/ RunScript

(***************************************************************************)
(* Specifications. Each one runs one component from its start state and    *)
(* leaves the others at rest.                                              *)
(***************************************************************************)
InitTraverse == TStart /\ MStart /\ sheet = NoSheet /\ FRest /\ KRest /\ DRest
    /\ ARest /\ RRest /\ XRest /\ SRest

InitMerge == TStart /\ MStart /\ FRest /\ KRest /\ DRest
    /\ ARest /\ RRest /\ XRest /\ SRest

InitFilter == TStart /\ MStart /\ sheet = NoSheet /\ FStart /\ KRest /\ DRest
    /\ ARest /\ RRest /\ XRest /\ SRest

InitKey == TStart /\ MStart /\ sheet = NoSheet /\ FRest /\ KStart /\ DRest
    /\ ARest /\ RRest /\ XRest /\ SRest

InitDispatch == TStart /\ MStart /\ sheet = NoSheet /\ FRest /\ KRest /\ DStart
    /\ ARest /\ RRest /\ XRest /\ SRest

InitAdapter == TStart /\ MStart /\ sheet = NoSheet /\ FRest /\ KRest /\ DRest
    /\ AStart /\ RRest /\ XRest /\ SRest

InitRun == TStart /\ MStart /\ sheet = NoSheet /\ FRest /\ KRest /\ DRest
    /\ ARest /\ RStart /\ XRest /\ SRest

SpecTraverse == InitTraverse /\ [][TNext]_vars

\* scrape_all_pages with the turns after page MaxPages; no step of the loop
\* waits forever (every wait of the browser has a timeout).
SpecTraverseUnbounded ==
    InitTraverse /\ [][TNextUnbounded]_vars /\ WF_vars(TNextUnbounded)

SpecMerge == InitMerge /\ [][MNext]_vars

SpecFilter == InitFilter /\ [][FNext]_vars

SpecKey == InitKey /\ [][KNext]_vars

SpecDispatch == InitDispatch /\ [][DNext]_vars

SpecAdapter == InitAdapter /\ [][ANext]_vars

SpecRun == InitRun /\ [][RNext]_vars

InitExtract == TStart /\ MStart /\ sheet = NoSheet /\ FRest /\ KRest /\ DRest
    /\ ARest /\ RRest /\ XStart /\ SRest

SpecExtract == InitExtract /\ [][XNext]_vars

InitSession == TStart /\ MStart /\ sheet = NoSheet /\ FRest /\ KRest /\ DRest
    /\ ARest /\ RRest /\ XRest /\ SStart

SpecSession == InitSession /\ [][SNext]_vars

\* main runs to its end: every step of it returns or raises.
SpecRunFair == SpecRun /\ WF_vars(RNext)

(***************************************************************************)
(* Claims about the spreadsheet append.                                    *)
(***************************************************************************)
\* C3: the spreadsheet never holds two data rows with the same (non-empty)
\* identifier, whatever runs have appended to it (runs whose read of the
\* existing identifiers met no request failure).
C3_StoreHasNoDuplicateKey ==
    (read_ok /\ prev_read_ok) =>
    \A i, j \in 1..Len(sheet.rows) :
        (i < j /\ sheet.rows[i] # "") => sheet.rows[i] # sheet.rows[j]

\* C5: when append_new_rows has finished, the rows it added to the worksheet
\* are the values of new_rows and nothing else; every one of them has an
\* identifier that is absent from the existing_ids read in this run, and no
\* item of data whose identifier is in existing_ids is among them.
C5_AppendedRowsAreTheFilteredOnes ==
    m_pc = "done" =>
        /\ sheet.rows = sheet_before.rows \o CellsOf(new_rows)
        /\ Range(new_rows) \subseteq Range(data)
        /\ \A i \in 1..Len(new_rows) :
              Str(new_rows[i].ifb_project_id) \notin existing_ids
        /\ \A i \in 1..Len(data) :
              Str(data[i].ifb_project_id) \in existing_ids
                  => data[i] \notin Range(new_rows)

\* A run that read a non-empty set of identifiers, dropped an item found in
\* it and appended another one.
C5_Witness ==
    /\ m_pc = "done"
    /\ existing_ids # {}
    /\ \E i \in 1..Len(data) : Str(data[i].ifb_project_id) \in existing_ids
    /\ new_rows # <<>>
    /\ Len(sheet.rows) > Len(sheet_before.rows)

\* C7: an item without an identifier (ifb_project_id is None: neither control
\* of the listing row carried one) is never among the rows append_new_rows
\* adds to the worksheet.
C7_ItemWithoutIdIsNotAppended ==
    m_pc = "done" =>
        \A i \in 1..Len(new_rows) : new_rows[i].ifb_project_id # PyNone

\* C6: a run that gets the candidates of the run before it, all of them with
\* an identifier, and reads the spreadsheet that run left behind (both reads
\* without a request failure), appends nothing: the spreadsheet is as it was
\* when the run started.
C6_SecondRunAppendsNothing ==
    (/\ m_pc = "done"
     /\ run_no >= 2
     /\ data = prev_data
     /\ \A i \in 1..Len(data) : data[i].ifb_project_id # PyNone
     /\ read_ok
     /\ prev_read_ok)
        => sheet = sheet_before

(***************************************************************************)
(* Claims about the filters.                                               *)
(***************************************************************************)
HasKey(d) == KeyField(strategy) \in DOMAIN d

KeysOf(ds) == [i \in 1..Len(ds) |-> DictGet(ds[i], KeyField(strategy))]

\* C4: when the filter returns, a candidate that has its key field is in the
\* result exactly when its key is not in the existing set; the result holds
\* only dicts of the input, unaltered, each once and in input order.
C4_FilterKeepsExactlyTheNewOnes ==
    f_pc = "done" =>
        /\ \A i \in 1..Len(projects) :
              HasKey(projects[i]) =>
                  (projects[i] \in Range(filtered)
                      <=> projects[i][KeyField(strategy)] \notin existing_keys)
        /\ Range(filtered) \subseteq Range(projects)
        /\ \A i, j \in 1..Len(filtered) :
              i < j => filtered[i].project_name < filtered[j].project_name

\* Existing keys {k1, k2}, candidates k1, k3, k4: the result is k3, k4.
C4_Witness ==
    /\ f_pc = "done"
    /\ existing_keys = {"k1", "k2"}
    /\ KeysOf(projects) = <<"k1", "k3", "k4">>
    /\ KeysOf(filtered) = <<"k3", "k4">>

(***************************************************************************)
(* Claims about the identity key.                                          *)
(***************************************************************************)
KeyFields == {"project_name", "company_name", "fund_collection_start_date"}

SameKeyFields(r1, r2) == \A k \in KeyFields : r1[k] = r2[k]

\* C8: two rows (with no empty key field) that differ in a key-contributing
\* field get different keys, the digest being collision-free.
C8_DifferentFieldsDifferentKeys ==
    attach_count >= 1 =>
        \A i, j \in 1..Len(rows) :
            (/\ ~SameKeyFields(rows[i], rows[j])
             /\ \A k \in KeyFields : rows[i][k] # <<>> /\ rows[j][k] # <<>>)
                => rows[i]["unique_key"] # rows[j]["unique_key"]

\* C9: rows with equal key-contributing fields have equal keys whatever their
\* other fields are, and a second attach_unique_keys, also one made after the
\* rows were scraped again with a new capture timestamp, leaves every
\* unique_key as the first call set it.
C9_KeyDependsOnKeyFieldsOnly ==
    attach_count >= 1 =>
        /\ \A i, j \in 1..Len(rows) :
              SameKeyFields(rows[i], rows[j])
                  => rows[i]["unique_key"] = rows[j]["unique_key"]
        /\ \A i \in 1..Len(rows) : rows[i]["unique_key"] = first_keys[i]

\* Two rows equal in the key fields and different in the capture timestamp,
\* keyed twice, the second time after a re-scrape.
C9_Witness ==
    /\ attach_count = 2
    /\ SameKeyFields(rows[1], rows[2])
    /\ rows[1]["project_name"] # <<>>
    /\ \E i \in 1..2 : rows[i]["scraped_date"] = <<"t2">>
    /\ rows[1]["unique_key"] = rows[2]["unique_key"]

(***************************************************************************)
(* Claims about the dispatcher.                                            *)
(***************************************************************************)
Adapters ==
    {"_scrape_hamafarin", "_scrape_fundocrowd", "_scrape_karencrowd",
     "_scrape_ifund", "_scrape_zeema", "_scrape_generic"}

HostPatterns ==
    {"hamafarin.ir", "fundocrowd.ir", "karencrowd.com", "ifund.ir", "zeema.fund"}

\* C10: for a non-empty outbound URL, well-formed or not, the dispatcher of
\* src/main.py never raises; it selects exactly one adapter, and the generic
\* one when no host pattern occurs in the URL at all.
C10_DispatcherIsTotal ==
    (variant = "main" /\ platform_url # <<>> /\ d_pc # "ready") =>
        /\ d_pc = "done"
        /\ selected \in Adapters
        /\ (\A pat \in HostPatterns : ~Contains(Lower(platform_url), pat))
              => selected = "_scrape_generic"

\* The ordered host-substring list of the dispatcher and the adapter each
\* entry stands for.
HostPatternList ==
    <<"hamafarin.ir", "fundocrowd.ir", "karencrowd.com", "ifund.ir",
      "zeema.fund">>

AdapterOfPattern ==
    <<"_scrape_hamafarin", "_scrape_fundocrowd", "_scrape_karencrowd",
      "_scrape_ifund", "_scrape_zeema">>

\* The adapter of the first entry of the list contained in host, the generic
\* adapter when no entry is.
FirstListedAdapter(host) ==
    LET hits == {i \in 1..Len(HostPatternList) :
                    Contains(host, HostPatternList[i])}
    IN  IF hits = {} THEN "_scrape_generic"
        ELSE AdapterOfPattern[CHOOSE i \in hits : \A j \in hits : i <= j]

\* C11: whenever a dispatcher (src/main.py or src/v7.py) selects an adapter
\* for an outbound URL that has a host, it is the adapter of the first entry
\* of the ordered host list contained in the lower-cased host, the generic
\* adapter when none is contained; the selection is therefore the same for
\* two URLs with the same host, whatever their paths and queries.
C11_SelectionByHostOnly ==
    (d_pc = "done" /\ selected # "none" /\ Netloc(platform_url) # <<>>) =>
        selected = FirstListedAdapter(Lower(Netloc(platform_url)))

(***************************************************************************)
(* Claims about the site adapters and the merge.                           *)
(***************************************************************************)
AdapterReturned == a_pc \in {"returned", "merged"}

\* The record's title is contained in the card's visible title, or the
\* card's visible title in the record's title.
ContainedEitherWay(card) ==
    /\ card.title # NoTitleElem
    /\ \/ IsSubstring(Strip(project["project_name"]), Strip(card.title))
       \/ IsSubstring(Strip(card.title), project["project_name"])

\* The record has a title and every card title on the page has text.
NoEmptyTitle ==
    /\ project["project_name"] # <<>>
    /\ \A i \in 1..Len(cards) : Strip(cards[i].title) # <<>>

\* C12: when a site adapter has loaded its page (titles not empty) and
\* returns, the card it stopped at is one whose title and the record's title
\* contain one another (either way), it stopped at a card whenever the page
\* has such a card, and with no such card it returns the empty mapping
\* without having raised.
C12_MatchIsContainmentEitherWay ==
    (/\ AdapterReturned
     /\ adapter \in SiteAdapters
     /\ failed # "navigation"
     /\ NoEmptyTitle) =>
        /\ chosen # 0 => ContainedEitherWay(cards[chosen])
        /\ (\E i \in 1..Len(cards) : ContainedEitherWay(cards[i])) => chosen # 0
        /\ chosen = 0 => (DOMAIN details = {} /\ failed = "none")

\* C13: the mapping a site adapter returns holds fields of one card only,
\* the first card in document order that passes the adapter's test: no card
\* before it passes the test, and every field of the mapping has the value
\* that card shows (none the value of a later card); when the extraction met
\* no failure the mapping is the whole mapping of that card.
C13_FirstMatchingCardOnly ==
    (AdapterReturned /\ adapter \in SiteAdapters /\ chosen # 0) =>
        /\ Matches(adapter, Strip(project["project_name"]), cards[chosen])
        /\ \A i \in 1..(chosen - 1) :
              ~Matches(adapter, Strip(project["project_name"]), cards[i])
        /\ \A k \in DOMAIN details :
              details[k] = CardValue(cards[chosen], k)
        /\ failed = "none" =>
              details = ExtractCard(adapter, cards[chosen],
                                    Len(CardKeys(adapter)))

\* Target "Alpha Project", cards "Alpha Project" and "Alpha Project
\* Extended": the result is the whole mapping of the first card.
C13_Witness ==
    /\ AdapterReturned
    /\ adapter = "_scrape_karencrowd"
    /\ project["project_name"] = <<"Alpha", " ", "Project">>
    /\ Len(cards) = 2
    /\ cards[1].title = <<"Alpha", " ", "Project">>
    /\ cards[2].title = <<"Alpha", " ", "Project", " ", "Extended">>
    /\ chosen = 1
    /\ failed = "none"
    /\ details["title_on_platform"] = <<"Alpha", " ", "Project">>
    /\ details["target_amount"] = "card1"

\* C14: when the extraction from the matched card is ended by an exception,
\* the adapter returns the fields extracted before it: every key assigned
\* before the failure is in the returned mapping with its value.
C14_PartialMappingIsReturned ==
    (AdapterReturned /\ failed = "parsing") =>
        \A k \in DOMAIN built : k \in DOMAIN details /\ details[k] = built[k]

\* C15: after the merge every listing field of the record has the value it
\* had before, whatever the adapter returned, and every key of the adapter
\* mapping is in the merged dict with the adapter's value.
C15_MergeKeepsListingFields ==
    a_pc = "merged" =>
        /\ \A k \in ListingFields :
              k \in DOMAIN combined /\ combined[k] = project[k]
        /\ \A k \in DOMAIN details : combined[k] = details[k]
        /\ DOMAIN details \cap ListingFields = {}

\* The whole mapping of a hamafarin card (status_on_platform among its
\* keys) merged into a record.
C15_Witness ==
    /\ a_pc = "merged"
    /\ adapter = "_scrape_hamafarin"
    /\ failed = "none"
    /\ chosen # 0
    /\ "status_on_platform" \in DOMAIN details
    /\ combined["status_on_platform"] = "card1"
    /\ combined["status"] = "listing"
    /\ combined["target_amount"] # project["target_amount"]

(***************************************************************************)
(* Claims about main.                                                      *)
(***************************************************************************)
RunEnded == r_pc \in {"exited", "crashed"}

\* C19: once the scraper exists, every end of the run (return at the end,
\* early return on an empty traversal, exception in the traversal, the
\* enrichment, the files or the append) has exactly one scraper.close()
\* before it, close is never called twice, nothing is started on the browser
\* after close, and close is reached in every run.
C19_CleanupOnEveryExit ==
    /\ []((RunEnded /\ scraper_made) => close_calls = 1)
    /\ [](close_calls <= 1)
    /\ [](close_calls = 1 => (RunEnded /\ scraper_made))
    /\ [][close_calls >= 1 => driver_ops' = driver_ops]_vars
    /\ (scraper_made ~> close_calls = 1)

\* An exception of the enrichment, caught, and the browser closed once.
C19_Witness ==
    /\ r_pc = "exited"
    /\ cause = "enrichment"
    /\ scraper_made
    /\ close_calls = 1
    /\ driver_ops >= 2
    /\ ~saved

\* C20: a store that cannot be used is absorbed: append_new_rows is never
\* called without a client; a run that meets no failure outside the store
\* writes the files with every traversed record enriched; a failure of the
\* append comes after the files are written and is caught; and nothing is
\* left by an exception except from the scraper constructor or from close
\* (never because of the credentials or the backend of the store).
C20_StoreUnavailabilityIsAbsorbed ==
    /\ []((~has_handler \/ ~has_client) => store_calls = 0)
    /\ []((r_pc = "exited" /\ n_projects > 0 /\ cause \in {"none", "store"})
            => (saved /\ n_enriched = n_projects))
    /\ [](cause = "store"
            => (saved /\ n_enriched = n_projects /\ store_calls = 1))
    /\ [][r_pc' = "crashed" => r_pc \in {"scraper", "finally", "crashed"}]_vars

(***************************************************************************)
(* Claims about a store that does not exist yet.                           *)
(***************************************************************************)
\* The items of data that carry an identifier.
WithId(items) == SelectSeq(items, LAMBDA item : item.ifb_project_id # PyNone)

\* C21: a store that does not exist yet is tolerated: no step that opens or
\* reads it raises; the identifiers read in a run that found no store are the
\* empty set; and that run appends every item of data that has an
\* identifier, in the order of data.
C21_MissingStoreIsTolerated ==
    /\ [](m_pc # "raised")
    /\ []((m_pc \in {"filter", "done"} /\ ~sheet_before.exists)
            => existing_ids = {})
    /\ []((m_pc = "done" /\ ~sheet_before.exists)
            => /\ WithId(new_rows) = WithId(data)
               /\ sheet.exists
               /\ WithId(data) # <<>> => sheet.rows # <<>>)

(***************************************************************************)
(* Claims about calling a filter twice.                                    *)
(***************************************************************************)
\* C22: with the same set of existing keys, a filter applied to the list it
\* returned gives that list back, a filter applied again to the same
\* candidates returns the same list as the first time, and neither second
\* call raises.
C22_FilterIsIdempotent ==
    /\ [][(f_pc = "done" /\ f_pc' = "reapplied") => filtered' = filtered]_vars
    /\ [][(f_pc = "done" /\ f_pc' = "repeated") => filtered' = filtered]_vars
    /\ [][f_pc = "done" => f_pc' # "raised"]_vars

\* The filter was applied to its own output, after a first call that dropped
\* a candidate and kept two.
C22_Witness ==
    /\ f_pc = "reapplied"
    /\ Len(filtered) >= 2
    /\ Len(filtered) < Len(projects)
    /\ existing_keys # {}

(***************************************************************************)
(* Claims about the extraction of the records of a page.                   *)
(***************************************************************************)
\* A data row the loop can build a record from.
WellFormed(tr) == tr.cells >= MinCells /\ tr.href

\* The row numbers of the well-formed rows among trs[2..last], in order.
WellFormedUpTo(last) ==
    LET kept == SelectSeq(SubSeq(trs, 2, last), WellFormed)
    IN  [i \in 1..Len(kept) |-> kept[i].n]

RowNumbers == [i \in 1..Len(extracted) |-> extracted[i].row_number]

\* C25: the first row of the table never yields a record; a row with fewer
\* than 10 cells or a row whose parsing raises yields none and the loop goes
\* on to the next row; the records returned are those of the well-formed
\* rows, all of them, in row order.
C25_RowLevelRecovery ==
    /\ [](\A i \in 1..Len(extracted) : extracted[i].row_number # trs[1].n)
    /\ [][(x_pc = "rows" /\ row_i <= Len(trs) /\ ~WellFormed(trs[row_i]))
            => (x_pc' = "rows" /\ row_i' = row_i + 1
                /\ extracted' = extracted)]_vars
    /\ [](x_pc = "rows" => RowNumbers = WellFormedUpTo(row_i - 1))
    /\ []((x_pc = "returned" /\ has_table)
            => RowNumbers = WellFormedUpTo(Len(trs)))

\* A short row and a row that raises, then a well-formed row whose record is
\* the one returned.
C25_Witness ==
    /\ x_pc = "returned"
    /\ Len(trs) = 4
    /\ trs[2].cells < MinCells
    /\ ~trs[3].href
    /\ WellFormed(trs[4])
    /\ RowNumbers = <<3>>

\* The identifier of a row: that of the details link when it carries one,
\* otherwise that of the documents icon.
Recovered(tr) == IF tr.details # PyNone THEN tr.details ELSE tr.docs

\* C26: every record carries the identifier of the details link when there
\* is one and otherwise that of the documents icon; its documents URL is the
\* listing URL with that identifier as doc_id, and is empty exactly when
\* neither control carries an identifier; the description of such a record
\* is the placeholder, and the row still yields its record.
C26_IdentifierAndDocumentsUrl ==
    /\ \A i \in 1..Len(extracted) :
          LET rec == extracted[i]
              id == Recovered(trs[rec.row_number + 1])
          IN  /\ rec.documents_url = DocumentsUrl(id)
              /\ rec.documents_url = <<>> <=> id = PyNone
              /\ id = PyNone => rec.description = DescUnavailable
              /\ "ifb_project_id" \in DOMAIN rec => rec.ifb_project_id = id
    /\ (x_pc = "returned" /\ has_table)
          => \A j \in 2..Len(trs) :
                (WellFormed(trs[j]) /\ Recovered(trs[j]) = PyNone)
                    => trs[j].n \in Range(RowNumbers)

\* C23: whenever the loop is between two rows or has returned, the
\* description modal is not displayed: every call of the description step
\* that revealed it has hidden it again.
C23_ModalDismissedBeforeNextRow ==
    x_pc \in {"rows", "returned"} => ~modal_open

(***************************************************************************)
(* Claims about the set of existing identifiers during a run.              *)
(***************************************************************************)
\* C24: in a run of append_new_rows the existing identifiers are read from
\* the store once; no data row is appended before that read; and from the
\* read to the end of the run the set stays what was read: the filter adds
\* no identifier of an item it accepts and changes neither the set nor data.
C24_ExistingKeysReadOnceAndFrozen ==
    /\ [](m_pc \in {"open", "read"}
            => (read_calls = 0 /\ sheet.rows = sheet_before.rows))
    /\ [](m_pc \in {"filter", "done"} => read_calls = 1)
    /\ [][m_pc = "filter"
            => (existing_ids' = existing_ids /\ data' = data)]_vars
    /\ [][(m_pc = "done" /\ m_pc' # "open")
            => existing_ids' = existing_ids]_vars
    /\ [](m_pc \in {"filter", "done"}
            => existing_ids \subseteq Range(sheet_before.rows))

\* A run that read identifiers from the store and appended an item with
\* another identifier: the set it read does not hold that identifier.
C24_Witness ==
    /\ m_pc = "done"
    /\ read_calls = 1
    /\ existing_ids # {}
    /\ new_rows # <<>>
    /\ \E i \in 1..Len(new_rows) :
          /\ Str(new_rows[i].ifb_project_id) \notin existing_ids
          /\ CellOf(new_rows[i].ifb_project_id) \in Range(sheet.rows)

(***************************************************************************)
(* Claims about the order of the calls on the browser.                     *)
(***************************************************************************)
\* C27: the markup of the page is never read, and no navigation is issued,
\* while a navigation that was issued has not been followed by its settle
\* delay.
C27_EveryNavigationIsSettled ==
    /\ At("read") => ~unsettled
    /\ At("nav") => ~unsettled

(***************************************************************************)
(* Claims about the enrichment loop.                                       *)
(***************************************************************************)
\* The positions 1..n_projects in order: one dict per record of projects.
OnePerRecord == enriched_from = [i \in 1..n_projects |-> i]

\* C28: when the enrichment loop ends, enriched_projects holds exactly one
\* dict for every record the traversal returned, in the order of the
\* traversal, whatever the adapters did; and the list the files and the
\* spreadsheet step get is that list.
C28_OneEnrichedRecordPerRecord ==
    /\ [][(r_pc = "enrich" /\ r_pc' # "enrich") => OnePerRecord']_vars
    /\ [](r_pc \in {"save", "store"} => OnePerRecord)
    /\ [](saved => OnePerRecord)

(***************************************************************************)
(* Claims about empty titles.                                              *)
(***************************************************************************)
\* C29: a site adapter returns a non-empty mapping only when its card loop
\* stopped at a card; the card it stops at never has a title that is empty
\* after trimming, and it stops at no card for a record whose title is
\* empty after trimming.
C29_NoMatchOnEmptyTitle ==
    (AdapterReturned /\ adapter \in SiteAdapters) =>
        /\ details # EmptyDict => chosen # 0
        /\ chosen # 0 =>
              /\ Strip(cards[chosen].title) # <<>>
              /\ Strip(project["project_name"]) # <<>>

====
